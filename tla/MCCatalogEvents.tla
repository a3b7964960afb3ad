-------------------------- MODULE MCCatalogEvents --------------------------
(* Small instances of CatalogEvents for TLC. *)
EXTENDS CatalogEvents, TLC

CONSTANTS files, stats, r1, r2

\* Most writers invalidate both domains, maintenance of aggregates only one.
RealChanges == {{files}, {files, stats}}
FilesChange == {{files}}
BothChange == {{files, stats}}

\* Requests are interchangeable.
Symmetry == Permutations({r1, r2})
=============================================================================
