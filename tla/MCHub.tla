------------------------------- MODULE MCHub -------------------------------
(* Instances of Hub for TLC.                                               *)
EXTENDS Hub, TLC

CONSTANTS u1, u2, i1, i2, r1, r2, m1, m2, f1, f2, s1, s2, a1, a2

\* every user holds every role
AllRoles == [u \in User |-> Role]

\* user u1 holds role r1 only, the others every role
OneRole == [u \in User |-> IF u = u1 THEN {r1} ELSE Role]

\* any slot carries any user's requests
AnyUser == [t \in UserSlot |-> User]

\* slot s1 carries u1's requests, slot s2 those of u2
OneSlotEach == [t \in UserSlot |-> IF t = s1 THEN {u1} ELSE {u2}]

\* every role is mapped to every instance
MapAll == [ro \in Role |-> Instance]

Slots == Permutations(UserSlot)

OAuthSymmetry == Permutations(Mailbox) \cup Permutations(Flow)
=============================================================================
