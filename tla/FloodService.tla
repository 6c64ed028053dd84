---------------------------- MODULE FloodService ----------------------------
(***************************************************************************)
(* What the flooding layer of the ResFi agents promises the applications,  *)
(* without sockets, paths, hops and caches: applications post letters, and *)
(* an application is given letters that were really posted, by others, for *)
(* it or for everybody, and of each host in the order of their ids.  Any   *)
(* letter may get lost.  A restart starts the book of an agent again.      *)
(***************************************************************************)
EXTENDS Integers, Sequences

CONSTANTS
    Node,   \* the access points
    Bcast   \* the address of everybody

VARIABLES
    posts,  \* posts[h]: the letters h has posted, in order
    inbox   \* inbox[n]: where to find the letters n was given, in order

vars == <<posts, inbox>>

Letter == [rec : Node \cup {Bcast}, id : Nat]

Init ==
    /\ posts = [h \in Node |-> <<>>]
    /\ inbox = [n \in Node |-> <<>>]

\* h posts any letter.
Post(h) ==
    LET k == Len(posts[h]) + 1
    IN  /\ k \in DOMAIN posts'[h]
        /\ posts'[h][k] \in Letter
        /\ posts' = [posts EXCEPT ![h] = Append(@, posts'[h][k])]
        /\ UNCHANGED inbox

\* The k-th letter of h may be given to n: it is for n, and newer than every
\* letter of h that n was given before.
Due(n, h, k) ==
    /\ h # n
    /\ posts[h][k].rec \in {Bcast, n}
    /\ \A i \in DOMAIN inbox[n] :
          inbox[n][i].host = h => posts[h][inbox[n][i].k].id < posts[h][k].id

Deliver(n, h, k) ==
    /\ k \in DOMAIN posts[h]
    /\ Due(n, h, k)
    /\ inbox' = [inbox EXCEPT ![n] = Append(@, [host |-> h, k |-> k])]
    /\ UNCHANGED posts

Reset(n) ==
    /\ inbox' = [inbox EXCEPT ![n] = <<>>]
    /\ UNCHANGED posts

Next ==
    \/ \E h \in Node : Post(h)
    \/ \E n, h \in Node : \E k \in DOMAIN posts[h] : Deliver(n, h, k)
    \/ \E n \in Node : Reset(n)

Spec == Init /\ [][Next]_vars

=============================================================================
