---------------------------- MODULE MCReturnLowering ----------------------------
(* ReturnLowering on all function bodies up to a size.                     *)
EXTENDS ReturnLowering

CONSTANTS
  MaxNodes,       \* bound: nodes of a body
  ReturnInLoops   \* whether loops may contain a return

(* The kinds with their substatements; an if comes with and without else.   *)
Forms ==
  {<<"plain", 0>>, <<"return", 0>>, <<"block", 2>>, <<"if", 1>>, <<"if", 2>>,
   <<"while", 1>>, <<"for", 1>>}

(* Forms, in preorder, of k statements with n nodes altogether. *)
Words[n \in 0 .. MaxNodes, k \in 0 .. MaxNodes + 1] ==
  CASE n = 0 /\ k = 0 -> {<<>>}
    [] k = 0 \/ k > n -> {}
    [] OTHER -> UNION {{<<f>> \o w : f \in {g \in Forms : g[2] = kids},
                                    w \in Words[n - 1, k - 1 + kids]} : kids \in 0 .. 2}

(* First index after the statement that starts at i. *)
After(w, i) ==
  LET after[j \in DOMAIN w] ==
        CASE w[j][2] = 0 -> j + 1
          [] w[j][2] = 1 -> after[j + 1]
          [] w[j][2] = 2 -> after[after[j + 1]]
  IN after[i]

(* As a tuple, so that TLC computes it once. *)
Body(w) == <<>> \o
  [i \in 1 .. Len(w) |->
     [kind |-> w[i][1],
      kids |-> CASE w[i][2] = 0 -> <<>>
                 [] w[i][2] = 1 -> <<i + 1>>
                 [] w[i][2] = 2 -> <<i + 1, After(w, i + 1)>>]]

LoopsReturn(w) ==
  \E i, j \in DOMAIN w : /\ w[i][1] \in {"while", "for"} /\ w[j][1] = "return"
                         /\ i < j /\ j < After(w, i)

BlockWords == UNION {{<< <<"block", 2>> >> \o w : w \in Words[n - 1, 2]} : n \in 1 .. MaxNodes}

AllBodies == {Body(w) : w \in {w \in BlockWords : LoopsReturn(w) => ReturnInLoops}}
MCBodies == AllBodies   \* TLC computes AllBodies once

(* Without returns in loops the bodies are those of theorem LoweringIsSound. *)
ASSUME ReturnInLoops \/ \A b \in Bodies : ReturnsOutsideLoops(b)
===============================================================================
