------------------------------ MODULE ProgramText ------------------------------
(***************************************************************************)
(* What the text of a program shows, as a tree of nodes in preorder: which   *)
(* nodes are below a node, which scope a declaration is in, what a name        *)
(* means, and which programs the type checker types as a whole.             *)
(***************************************************************************)
EXTENDS SemanticAnalysis

IsProgram(p) ==
  /\ p \in Seq(ProgramNode) /\ Len(p) > 0
  /\ IsTree(p)
  /\ \A n \in DOMAIN p : Arranged(p, n)

Par(p, m) == CHOOSE n \in DOMAIN p : m \in Children(p, n)

(* The descendants of a node are those that follow it up to its End. *)
End(p, n) ==
  CHOOSE e \in n .. Len(p) :
    /\ e < Len(p) => Par(p, e + 1) < n
    /\ \A m \in n + 1 .. e : Par(p, m) >= n

(* n is a or one of its descendants. *)
Inside(p, a, n) == n \in a .. End(p, a)

-------------------------------------------------------------------------------
(* Nodes that have a scope, and the scope that a node is in. *)
WithBody == {"fn", "for", "while"}

Scoped(p, n) ==
  \/ p[n].kind = "program" \/ p[n].kind \in WithBody
  \/ p[n].kind = "block" /\ p[Par(p, n)].kind \notin WithBody

Around(p, n) ==
  CHOOSE a \in 1 .. Len(p) :
    /\ Scoped(p, a) /\ Inside(p, a, n)
    /\ \A b \in 1 .. Len(p) : Scoped(p, b) /\ Inside(p, b, n) => b <= a

-------------------------------------------------------------------------------
(* Declarations and uses of names. *)
Variables == {"let", "param", "for"}
Uses      == {"var", "call"}

Declares(p, n) == p[n].kind \in Variables \/ n \in Children(p, 1)

(* Node whose scope has the declaration. *)
HomeOf(p, n) == IF n \in Children(p, 1) THEN 1 ELSE Around(p, n)

(* The declarations that the program shows to a use, and the one it means. *)
Seen(p, n) ==
  {d \in 1 .. Len(p) :
     /\ Declares(p, d) /\ p[d].name = p[n].name
     /\ d \in Children(p, 1) \/ (d < n /\ Inside(p, HomeOf(p, d), n))}

Best(p, n, d) ==
  /\ d \in Seen(p, n)
  /\ \A e \in Seen(p, n) : \/ HomeOf(p, d) > HomeOf(p, e)
                           \/ HomeOf(p, d) = HomeOf(p, e) /\ d <= e

-------------------------------------------------------------------------------
(* A use of a variable in its own initializer or bounds, where it has no type *)
(* yet.                                                                    *)
Behind(p, d, n) ==
  /\ d < n /\ Inside(p, d, n)
  /\ p[d].kind = "let" \/ (p[d].kind = "for" /\ n < p[d].kids[3])

Circular(p, n) ==
  \E m \in n .. End(p, n) : \E d \in 1 .. Len(p) :
    p[m].kind = "var" /\ Best(p, m, d) /\ Behind(p, d, m)

(* Programs that the type checker types as a whole: calls name functions of   *)
(* the program and variables declarations in them, and no assignment or       *)
(* println! has a circular use.                                            *)
Typeable(p) ==
  /\ \A n, d \in 1 .. Len(p) :
       p[n].kind \in Uses /\ Best(p, n, d) => (p[n].kind = "call" <=> d \in Children(p, 1))
  /\ \A n \in 1 .. Len(p) : p[n].kind \in {"assign", "print"} => ~Circular(p, n)
===============================================================================
