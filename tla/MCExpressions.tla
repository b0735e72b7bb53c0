------------------------------ MODULE MCExpressions ------------------------------
(* Expressions over a variable of each type, with narrow numbers. *)
EXTENDS Expressions

MCBits ==
  [k \in Unsigned \cup Signed \cup Floats |->
     CASE k \in {"i8", "u8", "i16", "u16"} -> 2
       [] k \in {"i32", "u32", "f32"}      -> 3
       [] OTHER                            -> 4]

Kinds == {"i8", "u8", "i32", "u32", "i64", "f32", "f64", "bool"}
Scalars == {Builtin(k) : k \in Kinds}

(* A variable is named after its type; fixed is not mut. *)
MCSymbols ==
  [k \in Kinds |-> [type |-> Builtin(k), mutable |-> TRUE]]
  @@ "fixed" :> [type |-> I32, mutable |-> FALSE]
  @@ "pair" :> [type |-> ArrayOf(I32, 2), mutable |-> TRUE]
  @@ "bytes" :> [type |-> ArrayOf(Builtin("u8"), 3), mutable |-> TRUE]

MCFunctions ==
  "test" :> [params |-> <<>>, result |-> Bool]
  @@ "next" :> [params |-> <<Builtin("i64")>>, result |-> I32]
  @@ "note" :> [params |-> <<>>, result |-> Unit]

-------------------------------------------------------------------------------
(* Trees as the parser leaves them. *)

Node(kind, args) == [kind |-> kind, args |-> args, type |-> Null, bad |-> FALSE]
Literal(kind, value) == Node(kind, <<>>) @@ [value |-> value]
Var(name) == Node("var", <<>>) @@ [name |-> name]
At(name, index) == Node("index", <<index>>) @@ [name |-> name]
CallOf(name, args) == Node("call", args) @@ [name |-> name]
CastTo(e, kind) == Node("as", <<e>>) @@ [to |-> Builtin(kind)]
Prefix(op, e) == Node("unary", <<e>>) @@ [op |-> op]
Bin(op, l, r) == Node("binary", <<l, r>>) @@ [op |-> op]
RefOf(e) == Node("ref", <<e>>) @@ [mutable |-> FALSE]
Listed(elements) == Node("array", elements) @@ [count |-> Len(elements)]
Repeated(e, n) == Node("array", <<e>>) @@ [count |-> n]

Let(declared, e) == Node("let", <<e>>) @@ [declared |-> declared]
Println(e) == Node("print", <<e>>)
Evaluate(e) == Node("eval", <<e>>)
For(from, to, inclusive) == Node("for", <<from, to>>) @@ [inclusive |-> inclusive]

Vars == {Var(k) : k \in Kinds}
Literals == {Literal("int", n) : n \in {1, 3}} \cup {Literal("float", 1), Literal("bool", 1)}
Leaves == Vars \cup Literals

Operators == {"+", "-", "*", "/", "==", "<", ">=", "&&", "||"}
Pairs == {Bin(op, l, r) : op \in Operators, l \in Vars, r \in Leaves}
OnLiterals == {Bin(op, Literal("int", 3), r) : op \in {"-", "/", "<"}, r \in Leaves}
Casts == {CastTo(e, k) : e \in Leaves, k \in Kinds}
Calls == {CallOf("next", <<e>>) : e \in Leaves} \cup {CallOf("test", <<>>), CallOf("note", <<>>),
            CallOf("test", <<Literal("int", 1)>>)}
Indexed == {At(a, i) : a \in {"pair", "bytes", "i32"},
                       i \in {Literal("int", 1), Literal("int", 3), Var("i8"), Var("u8"), Var("f32"),
                              CastTo(Var("i64"), "i32"), Bin("+", Var("i32"), Literal("int", 1)),
                              Bin("+", Var("i8"), Var("i32")), At("pair", Literal("int", 1))}}
Unaries == {Prefix(op, e) : op \in {"-", "!"}, e \in Leaves \cup {CallOf("test", <<>>)}}

(* Two operations, of which one converts, decides or calls. *)
Nested ==
  {CastTo(Bin(op, l, r), k) : op \in {"+", "/", "<"}, l \in {Var("i8"), Var("u8"), Var("f32")},
                             r \in {Var("i8"), Var("u8"), Var("f32"), Literal("int", 3)},
                             k \in {"i32", "u32", "f64"}}
  \cup {Bin(op, CastTo(l, k), r) : op \in {"*", "/", "<"}, l \in {Var("i8"), Var("u8"), Var("f64")},
                                  k \in {"i32", "u32", "i64"}, r \in Vars}
  \cup {Bin(op, l, r) : op \in Logical,
                        l \in {CallOf("test", <<>>), Var("bool"), Bin("<", Var("i8"), Literal("int", 1))},
                        r \in {CallOf("test", <<>>), Prefix("!", CallOf("test", <<>>)),
                               Bin("<", CallOf("next", <<Var("i64")>>), Var("fixed")),
                               Bin("&&", Var("bool"), CallOf("test", <<>>))}}
  \cup {Bin("==", CallOf("note", <<>>), CallOf("note", <<>>)),
        Bin("+", CallOf("next", <<Bin("+", Var("i64"), Literal("int", 1))>>), CallOf("next", <<Var("i64")>>)),
        Bin("+", Var("i32"), Bin("=", Var("u32"), Literal("int", 1)))}

All == Leaves \cup Pairs \cup OnLiterals \cup Casts \cup Calls \cup Indexed \cup Unaries \cup Nested

(* What has a value of its own type is declared with each type as well. *)
Declared == Leaves \cup OnLiterals \cup Calls \cup Unaries
            \cup {Bin(op, l, r) : op \in {"+", "/"}, l \in Literals, r \in Literals}

(* Casts of what holds a literal, behind a declared type. *)
CastOfLiterals ==
  {CastTo(Bin(op, l, Literal("int", 3)), "u8") : op \in {"+", "/"},
                                                l \in {Var("i32"), Literal("int", 1), Literal("int", 5)}}
  \cup {CastTo(Literal("int", 5), k) : k \in Kinds}

Arrays ==
  {Listed(<<a, b>>) : a \in {Literal("int", 1), Var("i32"), CallOf("next", <<Var("i64")>>)},
                      b \in {Literal("int", 3), Var("i32"), Var("f32"), CallOf("next", <<Literal("int", 1)>>)}}
  \cup {Repeated(e, n) : e \in {Literal("int", 1), Var("i32"), CallOf("next", <<Var("i64")>>)}, n \in {1, 2, 4}}

References ==
  {RefOf(e) : e \in Leaves \cup Indexed \cup Calls \cup {Bin("+", Var("i32"), Literal("int", 1))}}
Compared == {Bin("==", RefOf(Var("i32")), RefOf(e)) : e \in {Var("i32"), Var("i64"), Literal("int", 1)}}

Targets == {Var(k) : k \in Kinds \cup {"fixed", "pair"}}
           \cup {At("pair", Literal("int", 1)), At("pair", Var("i8")),
                 At("pair", CastTo(Var("i8"), "i32")), At("bytes", Literal("int", 0)),
                 CallOf("test", <<>>)}
Values == Leaves \cup Arrays \cup Unaries
          \cup {Bin("/", l, r) : l \in Vars, r \in {Var("i32"), Var("u8"), Literal("int", 3)}}
          \cup {CastTo(Var(k), j) : k \in {"i8", "i32", "u32", "f64"}, j \in {"i8", "u32", "i64"}}
          \cup {CallOf("next", <<Var("i64")>>), CallOf("note", <<>>)}

MCStatements ==
  {Let(Null, e) : e \in All \cup Arrays \cup References \cup Compared \cup {Var("pair")}}
  \cup {Let(t, e) : t \in Scalars, e \in Declared \cup CastOfLiterals}
  \cup {Let(ArrayOf(t, n), e) : t \in {I32, Builtin("i64")}, n \in {1, 2, 4}, e \in Arrays \cup {Var("pair")}}
  \cup {Evaluate(Bin(op, t, e)) : op \in Assignments, t \in Targets, e \in Values}
  \cup {Evaluate(e) : e \in Nested \cup Calls}
  \cup {Println(e) : e \in Leaves \cup Casts \cup Indexed \cup Calls \cup {Var("pair")}
                         \cup References}
  \cup {For(l, r, b) : l \in {Literal("int", 1), Var("i8"), Var("i32")},
                       r \in Leaves \cup {CallOf("next", <<Literal("int", 3)>>)}, b \in BOOLEAN}

-------------------------------------------------------------------------------
(* The patterns around zero and around the sign bit. *)
Patterns(t) ==
  IF t = Bool THEN {0, 1}
  ELSE IF IsFloat(t) THEN {-3, 0, 2}
  ELSE LET w == Bits[t.kind] IN {0, 1, 2^(w - 1) - 1, 2^(w - 1), 2^w - 1}

Contents(name) ==
  IF name \in DOMAIN MCFunctions
  THEN IF MCFunctions[name].result = Unit THEN {0} ELSE Patterns(MCFunctions[name].result)
  ELSE CASE name = "pair" -> {<<1, 6>>}
         [] name = "bytes" -> {<<0, 1, 3>>}
         [] OTHER -> Patterns(MCSymbols[name].type)

MCMemories(names) ==
  FoldSet(LAMBDA n, memories : {m @@ (n :> c) : m \in memories, c \in Contents(n)},
          {<<>>}, names)
===============================================================================
