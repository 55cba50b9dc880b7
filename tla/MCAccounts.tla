----------------------------- MODULE MCAccounts -----------------------------
(***************************************************************************)
(* Three requests: on tokens and accounts, on devices, or both.            *)
(***************************************************************************)
EXTENDS Accounts, TLC

CONSTANTS ann, bob, r1, r2, r3, p1, p2

MCAccountSet == {ann, bob}
MCRequests == {r1, r2, r3}
MCPhones == {p1, p2}

Login == [op |-> "login", email |-> ann]
Register == [op |-> "register", email |-> ann]
Refresh(t) == [op |-> "refresh", token |-> t]
Logout(t) == [op |-> "logout", token |-> t]
Delete == [op |-> "delete", user |-> ann]
Enable(u, p, t) == [op |-> "enable", user |-> u, phone |-> p, push |-> t]
Disable(u, p) == [op |-> "disable", user |-> u, phone |-> p]

Trio(a, b, c) == r1 :> a @@ r2 :> b @@ r3 :> c

Row(u, p, a) == [user |-> u, inst |-> u, push |-> p, active |-> a]

(* The old tokens against each other and against the account's end. *)
TokenStories ==
  [intent  : {Trio(Refresh(ann), b, c) : b \in {Refresh(ann), Logout(ann), Refresh(r1), Delete},
                                         c \in {Refresh(r1), Logout(r1), Logout(ann), Delete}}
               \union {Trio(Login, b, Delete) : b \in {Refresh(r1), Register, Delete}}
               \union {Trio(Register, Register, Delete)},
   devices : {[u \in MCAccountSet |-> None]},
   stored  : {[p \in MCPhones |-> None]}]

(* Two rows whose tokens change places, with the first active or not. *)
DeviceStories ==
  [intent  : {Trio(Enable(ann, p1, "t2"), Enable(bob, p2, "t1"), c) :
                c \in {Disable(ann, p1), Delete, Enable(bob, p1, "t1")}}
               \union {Trio(Enable(bob, p1, b), c, d) : b \in {"t1", "t2"},
                c \in {Enable(ann, p1, "t1"), Disable(ann, p1)}, d \in {Disable(bob, p1), Delete}},
   devices : {ann :> Row(ann, "t1", a) @@ bob :> Row(bob, "t2", FALSE) : a \in BOOLEAN},
   stored  : {p1 :> ann @@ p2 :> bob}]

(* A phone without an id, and a token that was another installation's. *)
PhoneStories ==
  [intent  : {Trio(Enable(ann, p1, "t1"), Enable(ann, p1, "t1"), c) :
                c \in {Disable(ann, p1), Enable(bob, p1, "t1"), Delete}},
   devices : {ann :> d @@ bob :> None : d \in {None, Row(ann, "t1", FALSE)}},
   stored  : {[p \in MCPhones |-> None]}]

MCStories == TokenStories \union DeviceStories \union PhoneStories
=============================================================================
