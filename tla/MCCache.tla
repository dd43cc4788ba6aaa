------------------------------ MODULE MCCache ------------------------------
(***************************************************************************)
(* Cache on small instances: a set of two ways, three or four tags, of     *)
(* which some share a memory line, one is a device's and one has no target.*)
(***************************************************************************)
EXTENDS Cache, TLC

CONSTANTS s0, ta, tb, tc, td, te, la, lb, lc

\* Every tag has a line of its own.
HomeOwn == [s \in Set |-> [t \in Tag |-> CASE t = ta -> la [] t = tb -> lb
                                             [] OTHER -> lc]]

\* ta and tb are aliases; tc is a line of its own, te a device; td has no
\* target.
HomeShared == [s \in Set |-> [t \in Tag |->
                 CASE t \in {ta, tb} -> la [] t = tc -> lb [] t = te -> lc
                   [] OTHER -> NoLine]]

MmioNone == [s \in Set |-> {}]
MmioTe == [s \in Set |-> {te}]
=============================================================================
