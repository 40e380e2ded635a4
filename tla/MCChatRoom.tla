------------------------------ MODULE MCChatRoom ------------------------------
(* Three members, two of them on one connection with one slot.               *)
EXTENDS ChatRoom, TLC

CONSTANTS a, b, c
McMembers == {a, b, c}
McConnectionOf == (a :> "k") @@ (b :> "k") @@ (c :> "l")
McBudgets == {[sends |-> 2, jobs |-> 1, mishaps |-> 1],
              [sends |-> 1, jobs |-> 2, mishaps |-> 0]}
McSlots == ("k" :> 1) @@ ("l" :> 1)
=============================================================================
