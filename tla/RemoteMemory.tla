---------------------------- MODULE RemoteMemory ----------------------------
(***************************************************************************)
(* What the RDMA client promises its caller: a memory on which one call at *)
(* a time takes effect atomically, so that a read returns what was written *)
(* last.  The connection can fail; the memory is then lost, and no call    *)
(* takes effect any more.                                                  *)
(***************************************************************************)
CONSTANTS Offsets, Data, Garbage

VARIABLES
    mem,    \* the contents of every page
    pend,   \* the call in progress
    ret,    \* what the last read returned
    up      \* the connection has not failed

vars == <<mem, pend, ret, up>>

Contents == Data \cup {Garbage}
NoCall   == [op |-> "none"]

Init == /\ mem = [o \in Offsets |-> Garbage]
        /\ pend = NoCall /\ ret = Garbage /\ up = TRUE

\* The caller begins a call; the next one needs this one to be over.
Invoke(call) ==
    /\ pend = NoCall
    /\ pend' = call
    /\ UNCHANGED <<mem, ret, up>>

\* A write takes effect and returns.
Write ==
    /\ up /\ pend.op = "write"
    /\ mem' = [mem EXCEPT ![pend.off] = pend.data]
    /\ pend' = NoCall
    /\ UNCHANGED <<ret, up>>

\* A read returns the current contents of its page.
Read ==
    /\ up /\ pend.op = "read"
    /\ ret' = mem[pend.off]
    /\ pend' = NoCall
    /\ UNCHANGED <<mem, up>>

\* The connection fails, and with it goes any write still under way.
Fail ==
    /\ up' = FALSE
    /\ mem' \in [Offsets -> Contents]
    /\ UNCHANGED <<pend, ret>>

Next ==
    \/ \E o \in Offsets, d \in Data : Invoke([op |-> "write", off |-> o, data |-> d])
    \/ \E o \in Offsets : Invoke([op |-> "read", off |-> o])
    \/ Write \/ Read \/ Fail

Spec == Init /\ [][Next]_vars
=============================================================================
