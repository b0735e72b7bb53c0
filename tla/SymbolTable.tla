------------------------------ MODULE SymbolTable ------------------------------
(***************************************************************************)
(* Scopes and symbols (lib/Sema/Scope.cpp, lib/Sema/SymbolTable.cpp).      *)
(*                                                                         *)
(* Scopes live in AllScopes and symbols in the arena for the whole          *)
(* compilation; both are known by their place there, and None is the null   *)
(* pointer.  A scope keeps its entries in order of declaration and, once    *)
(* there are more than IndexThreshold of them, an index over them as well.  *)
(***************************************************************************)
EXTENDS Integers, Sequences, SequencesExt, FiniteSetsExt, TLC

CONSTANTS
  IndexThreshold,   \* entries that a scope scans without an index
  Spellings         \* interned names

ASSUME IndexThresholdAssumption == IndexThreshold \in Nat \ {0}

VARIABLES
  scopes,    \* AllScopes
  current,   \* CurrentScope
  arena      \* SymbolArena

tableVars == <<scopes, current, arena>>

None == 0

NoIndex == <<>>

NewScope(parent) == [parent |-> parent, entries |-> <<>>, index |-> NoIndex]

Names(entries) == {entries[i].name : i \in DOMAIN entries}

FirstOf(entries, name) ==
  entries[Min({i \in DOMAIN entries : entries[i].name = name})].symbol

(* Seeded fault: the entry that made the scope outgrow the scan is left out. *)
BuiltIndexWithoutLast(entries) ==
  [name \in Names(SubSeq(entries, 1, Len(entries) - 1)) |-> FirstOf(entries, name)]

BuiltIndex(entries) == [name \in Names(entries) |-> FirstOf(entries, name)]

(* emplace keeps an entry that is there. *)
Emplaced(index, name, symbol) ==
  [n \in DOMAIN index \cup {name} |-> IF n \in DOMAIN index THEN index[n] ELSE symbol]

(* Scope::addSymbolUnchecked *)
WithSymbol(scope, name, symbol) ==
  LET entries == Append(scope.entries, [name |-> name, symbol |-> symbol])
  IN [scope EXCEPT
        !.entries = entries,
        !.index = IF @ # NoIndex THEN Emplaced(@, name, symbol)
                  ELSE IF Len(entries) > IndexThreshold THEN BuiltIndex(entries)
                  ELSE @]

(* Scope::lookupSymbolLocal *)
LookupLocal(scope, name) ==
  IF scope.index # NoIndex
  THEN IF name \in DOMAIN scope.index THEN scope.index[name] ELSE None
  ELSE IF name \in Names(scope.entries) THEN FirstOf(scope.entries, name) ELSE None

(* lookupSymbol: from the current scope outwards. *)
Lookup(name) ==
  LET from[s \in 0 .. Len(scopes)] ==
        IF s = None THEN None
        ELSE LET symbol == LookupLocal(scopes[s], name)
             IN IF symbol # None THEN symbol ELSE from[scopes[s].parent]
  IN from[current]

(* The constructor enters the global scope. *)
TableInit ==
  /\ scopes = <<NewScope(None)>>
  /\ current = 1
  /\ arena = <<>>

enterScope ==
  /\ scopes' = Append(scopes, NewScope(current))
  /\ current' = Len(scopes) + 1
  /\ UNCHANGED arena

(* Seeded fault: a scope without symbols is not left. *)
exitScopeIfUsed ==
  /\ current' = IF scopes[current].entries # <<>> THEN scopes[current].parent ELSE current
  /\ UNCHANGED <<scopes, arena>>

exitScope ==
  /\ current' = IF scopes[current].parent # None THEN scopes[current].parent ELSE current
  /\ UNCHANGED <<scopes, arena>>

Redefines(name) == LookupLocal(scopes[current], name) # None

(* addSymbol of a name that is not in the current scope. *)
addSymbol(name, symbol) ==
  /\ ~Redefines(name)
  /\ arena' = Append(arena, symbol)
  /\ scopes' = [scopes EXCEPT ![current] = WithSymbol(@, name, Len(arena) + 1)]
  /\ UNCHANGED current
===============================================================================
