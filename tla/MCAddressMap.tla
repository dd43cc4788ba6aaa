---------------------------- MODULE MCAddressMap ----------------------------
(***************************************************************************)
(* AddressMap on a small instance: 32 addresses stand for 2^32, and six    *)
(* bytes of memory are mapped at 0 and in the middle, a device between.    *)
(***************************************************************************)
EXTENDS AddressMap

MCRegion == <<[base |-> 0,  size |-> 6, port |-> 0],
              [base |-> 16, size |-> 6, port |-> 0],
              [base |-> 8,  size |-> 4, port |-> 1]>>
=============================================================================
