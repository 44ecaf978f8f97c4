------------------------------ MODULE InstrPort ------------------------------
(***************************************************************************)
(* What the instruction memory promises the cores, whatever is behind it:  *)
(* every core has a port on which it raises one request at a time; an      *)
(* accepted request is answered exactly once, in the order of acceptance,  *)
(* with the word the memory holds at the requested address.                *)
(***************************************************************************)
EXTENDS Sequences

CONSTANTS
  Cores,    \* the requesting cores
  Addr,     \* instruction addresses
  NoAddr,   \* "no request raised"
  Value,    \* Value[a]: the instruction the memory holds at address a
  NoWord    \* content of a core's instruction input before any answer

VARIABLES
  req,      \* req[c]: the address core c is requesting, or NoAddr
  inflight, \* inflight[c]: addresses accepted for c, not answered yet
  got       \* got[c]: the last word c received

vars == <<req, inflight, got>>

Init ==
  /\ req = [c \in Cores |-> NoAddr]
  /\ inflight = [c \in Cores |-> <<>>]
  /\ got = [c \in Cores |-> NoWord]

Raise(c, a) ==
  /\ req[c] = NoAddr
  /\ req' = [req EXCEPT ![c] = a]
  /\ UNCHANGED <<inflight, got>>

(***************************************************************************)
(* One clock edge of the port: some accepted requests are answered, then   *)
(* some raised requests are accepted.                                      *)
(***************************************************************************)
Answered(A, c) == IF c \in A THEN Tail(inflight[c]) ELSE inflight[c]

Serve(A, B) ==
  /\ \A c \in A : inflight[c] # <<>>
  /\ \A c \in B : req[c] # NoAddr
  /\ got' = [c \in Cores |-> IF c \in A THEN Value[Head(inflight[c])] ELSE got[c]]
  /\ inflight' = [c \in Cores |-> IF c \in B THEN Append(Answered(A, c), req[c])
                                             ELSE Answered(A, c)]
  /\ req' = [c \in Cores |-> IF c \in B THEN NoAddr ELSE req[c]]

Next ==
  \/ \E c \in Cores, a \in Addr : Raise(c, a)
  \/ \E A, B \in SUBSET Cores : Serve(A, B)

Spec == Init /\ [][Next]_vars
==============================================================================
