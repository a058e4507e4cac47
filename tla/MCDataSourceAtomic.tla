------------------------- MODULE MCDataSourceAtomic -------------------------
(***************************************************************************)
(* DataSourceAtomic for TLC.                                               *)
(***************************************************************************)
EXTENDS DataSourceAtomic, MCDataSource
=============================================================================
