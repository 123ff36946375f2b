---------------------------- MODULE ShadowStacks ----------------------------
(***************************************************************************)
(* What shadow stacks promise to the threads of a guest: every call's      *)
(* return address is remembered, a return goes to the address remembered   *)
(* last, and a return to any other address stops the thread.  There is no  *)
(* pointer, page table or hypervisor here.  ZicfissGuest implements this.  *)
(***************************************************************************)
EXTENDS Sequences, Naturals

CONSTANTS Thread, Ra

VARIABLES
    stack,   \* the return addresses each thread has to come back to
    alarm    \* the address it was stopped at, or 0

Init ==
    /\ stack = [t \in Thread |-> <<>>]
    /\ alarm = [t \in Thread |-> 0]

Call(t, v) ==
    /\ alarm[t] = 0
    /\ stack' = [stack EXCEPT ![t] = Append(@, v)]
    /\ UNCHANGED alarm

Return(t) ==
    /\ alarm[t] = 0 /\ stack[t] # <<>>
    /\ stack' = [stack EXCEPT ![t] = SubSeq(@, 1, Len(@) - 1)]
    /\ UNCHANGED alarm

Reject(t, v) ==
    /\ alarm[t] = 0 /\ stack[t] # <<>>
    /\ v # stack[t][Len(stack[t])]
    /\ alarm' = [alarm EXCEPT ![t] = v]
    /\ UNCHANGED stack

\* A stopped thread makes room for a new one.
Restart(t) ==
    /\ alarm[t] # 0
    /\ stack' = [stack EXCEPT ![t] = <<>>]
    /\ alarm' = [alarm EXCEPT ![t] = 0]

Next ==
    \E t \in Thread :
        \/ \E v \in Ra : Call(t, v) \/ Reject(t, v)
        \/ Return(t) \/ Restart(t)

Spec == Init /\ [][Next]_<<stack, alarm>>
=============================================================================
