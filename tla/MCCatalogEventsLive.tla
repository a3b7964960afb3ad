------------------------ MODULE MCCatalogEventsLive ------------------------
(***************************************************************************)
(* CatalogEvents under fairness, with fetches that may be slower than the  *)
(* cooldown (the constants of the configuration) or that end within it.    *)
(***************************************************************************)
EXTENDS MCCatalogEvents

VARIABLE fetches

Quick == INSTANCE CatalogEvents WITH Changes <- RealChanges, Prompt <- TRUE

LiveSpec ==
    /\ fetches \in {"slow", "prompt"} /\ Init
    /\ [][/\ UNCHANGED fetches
          /\ \/ fetches = "slow" /\ Next
             \/ fetches = "prompt" /\ Quick!Next]_<<vars, fetches>>
    /\ WF_vars(StreamReadState) /\ WF_vars(StreamReadPage)
    /\ WF_vars(Connect) /\ WF_vars(Deliver)
    /\ WF_vars((fetches = "slow" /\ TimerFires) \/ (fetches = "prompt" /\ Quick!TimerFires))
    /\ \A d \in Domains : WF_vars(QueryRead(d)) /\ WF_vars(QueryDone(d))

=============================================================================
