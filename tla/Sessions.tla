------------------------------- MODULE Sessions -------------------------------
(***************************************************************************)
(* What the exchange of refresh tokens promises.  A login opens a session  *)
(* with one token; a session goes on by exchanging its token for a new one *)
(* in one indivisible step; sessions may be closed, any number at once.    *)
(* So a session has at most one token that is good for anything, it never  *)
(* changes its user, and nothing but a login opens one.                    *)
(***************************************************************************)
EXTENDS Naturals, Sequences

CONSTANT Users

VARIABLES
    tokens,   \* every token ever made, in order: [user, login], where login
              \* is the first token of its session
    open      \* the tokens that can be exchanged

vars == <<tokens, open>>

Fresh == Len(tokens) + 1

Init == tokens = <<>> /\ open = {}

Login(u) ==
    /\ tokens' = Append(tokens, [user |-> u, login |-> Fresh])
    /\ open' = open \cup {Fresh}

Exchange(t) ==
    /\ t \in open
    /\ tokens' = Append(tokens, tokens[t])
    /\ open' = (open \ {t}) \cup {Fresh}

Close(S) ==
    /\ open' = open \ S
    /\ UNCHANGED tokens

Next ==
    \/ \E u \in Users : Login(u)
    \/ \E t \in open : Exchange(t)
    \/ \E S \in SUBSET open : Close(S)

Spec == Init /\ [][Next]_vars

=============================================================================
