------------------------------ MODULE MemPort ------------------------------
(***************************************************************************)
(* What the approximately-timed (AT) memory path promises its initiators:  *)
(* a request is served exactly once, atomically, at one instant between    *)
(* the call and its return, on the word the address names and with the     *)
(* caller's own buffer.  Other masters' stores may fall before or after    *)
(* that instant.  Nothing is said of payload objects, phases, timing or    *)
(* routing: ATTransport models those and is shown to implement this.       *)
(***************************************************************************)

CONSTANTS
  Client,     \* the initiators of the AT path
  Offset,     \* word addresses inside the memory
  NoOffset,   \* stands for an address that no target decodes
  Val,        \* word values
  Zero        \* the value of a fresh buffer

VARIABLES
  mem,        \* mem[o] is the word at offset o
  port,       \* port[c] is the state of client c's one outstanding request
  buf         \* buf[c] is the word client c's data pointer refers to

vars == <<mem, port, buf>>

Idle == [st |-> "idle", cmd |-> "none", off |-> NoOffset]

Init ==
  /\ mem \in [Offset -> Val]
  /\ port = [c \in Client |-> Idle]
  /\ buf = [c \in Client |-> Zero]

\* A write call carries its word in the buffer; a read call leaves the buffer.
Load(c, cmd, v) ==
  \/ cmd = "read" /\ buf' = buf
  \/ cmd = "write" /\ buf' = [buf EXCEPT ![c] = v]

Request(c, cmd, o, v) ==
  /\ port[c] = Idle
  /\ port' = [port EXCEPT ![c] = [st |-> "busy", cmd |-> cmd, off |-> o]]
  /\ Load(c, cmd, v)
  /\ UNCHANGED mem

\* No target decodes the address: the request is never served.
Refuse(c, cmd, v) ==
  /\ port[c] = Idle
  /\ port' = [port EXCEPT ![c] =
                [st |-> "refused", cmd |-> cmd, off |-> NoOffset]]
  /\ Load(c, cmd, v)
  /\ UNCHANGED mem

Serve(c) ==
  /\ port[c].st = "busy"
  /\ port' = [port EXCEPT ![c].st = "done"]
  /\ \/ /\ port[c].cmd = "read"
        /\ buf' = [buf EXCEPT ![c] = mem[port[c].off]]
        /\ mem' = mem
     \/ /\ port[c].cmd = "write"
        /\ mem' = [mem EXCEPT ![port[c].off] = buf[c]]
        /\ buf' = buf

Return(c) ==
  /\ port[c].st = "done"
  /\ port' = [port EXCEPT ![c] = Idle]
  /\ UNCHANGED <<mem, buf>>

\* A store of a master that does not use this port (the processor).
Store(o, v) ==
  /\ mem' = [mem EXCEPT ![o] = v]
  /\ UNCHANGED <<port, buf>>

Next ==
  \/ \E c \in Client, cmd \in {"read", "write"}, v \in Val :
        \/ \E o \in Offset : Request(c, cmd, o, v)
        \/ Refuse(c, cmd, v)
  \/ \E c \in Client : Serve(c) \/ Return(c)
  \/ \E o \in Offset, v \in Val : Store(o, v)

Safe == Init /\ [][Next]_vars

Spec == Safe /\ \A c \in Client : WF_vars(Serve(c)) /\ WF_vars(Return(c))
=============================================================================
