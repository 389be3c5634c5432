------------------------------- MODULE MCFormat -------------------------------
(***************************************************************************)
(* Buffers of every size around the length of the text, one directive of   *)
(* every kind with every flag, and calls like the loader's own.  The       *)
(* integer types are scaled: char 2 bits, short 3, int and long 4,         *)
(* uintmax_t 6; numbers of 6 bits are not representable in the others.  A  *)
(* width or precision has 3 bits, and a numeral with three digits, zeros   *)
(* or not, fills num_buffer.                                               *)
(***************************************************************************)
EXTENDS Format, TLC

MCBits ==
  ("hh" :> 2) @@ ("h" :> 3) @@ ("" :> 4) @@ ("l" :> 4) @@ ("ll" :> 6) @@ ("j" :> 6) @@
  ("z" :> 4) @@ ("t" :> 4) @@ ("p" :> 4)

Literal(c) ==
  [spec |-> "literal", char |-> c, flags |-> {}, width |-> 0, precision |-> NONE, length |-> ""]

Directive(spec, flags, width, precision, length) ==
  [spec |-> spec, char |-> "", flags |-> flags, width |-> width, precision |-> precision,
   length |-> length]

Number(n) == [num |-> n, str |-> <<>>]
Text(s) == [num |-> 0, str |-> s]

Call(device, n, format, args) == [device |-> device, n |-> n, format |-> format, args |-> args]

\* Names, sizes and addresses cut anywhere: "ramfs/%s", "%#x %u", "%n" in the
\* middle, padding on both sides.
Buffers ==
  {Call(d, n, f[1], f[2]) :
     d \in {"memory", "none"}, n \in 0 .. 7,
     f \in { <<<<>>, <<>>>>,
             <<<<Literal("r"), Directive("s", {}, 0, NONE, "")>>, <<Text(<<"a", "b", "c", "d">>)>>>>,
             <<<<Directive("s", {}, 0, NONE, ""), Directive("s", {}, 0, NONE, "")>>,
               <<Text(<<>>), Text(<<"a", "b">>)>>>>,
             <<<<Directive("x", {"#"}, 0, 2, ""), Literal(" "), Directive("u", {}, 0, NONE, "z")>>,
               <<Number(10), Number(15)>>>>,
             <<<<Directive("s", {"-"}, 4, NONE, ""), Directive("n", {}, 0, NONE, "hh"),
                 Directive("c", {}, 3, NONE, ""), Directive("n", {}, 0, NONE, "ll")>>,
               <<Text(<<"a">>), Number(0), Text(<<"z">>), Number(0)>>>> }}

Numbers ==
  {Call("memory", 12, <<Directive(s, f, w, p, l)>>, <<Number(v)>>) :
     s \in {"d", "i", "u", "o", "x", "X"}, f \in {{}, {"-"}, {"0"}, {"+"}, {" "}, {"#"}, {"#", "-"}},
     w \in {0, 5, 9}, p \in {NONE, 3}, l \in {"hh", "h", "", "ll", "z"},
     v \in {0, 1, 3, 7, 9, 10, 15, 31, 63, -1, -8}}

\* Two arguments of a directive come before its value.
Starred ==
  {Call("memory", 9, <<Directive(s, {}, STAR, p, ""), Directive("u", {}, 0, NONE, "")>>,
        IF p = STAR THEN <<Number(w), Number(q), [num |-> 5, str |-> <<"k">>], Number(9)>>
                    ELSE <<Number(w), [num |-> 5, str |-> <<"k">>], Number(9)>>) :
     s \in {"s", "c", "u", "p"}, p \in {NONE, STAR}, w \in {-11, -3, 0, 3, 9}, q \in {-1, 2, 10}}

\* Line feeds, NULs, percent signs, and what is not supported.
Lines ==
  {Call(d, 9, f[1], f[2]) :
     d \in {"memory", "screen", "serial"},
     f \in { <<<<Literal("E"), Directive("s", {}, 0, NONE, ""), Literal("LF")>>,
               <<Text(<<"a", "LF", "b">>)>>>>,
             <<<<Directive("%", {}, 0, NONE, ""), Directive("c", {}, 2, NONE, "")>>,
               <<Text(<<"NUL">>)>>>>,
             <<<<Directive("%", {"-"}, 3, NONE, ""), Directive("unknown", {}, 2, NONE, ""),
                 Literal("LF")>>, <<>>>>,
             <<<<Directive("p", {}, 0, 11, ""), Directive("s", {}, 3, NONE, "l"), Literal("LF"),
                 Directive("c", {}, 2, NONE, "l"), Directive("u", {}, 0, NONE, "j")>>,
               <<Number(13), Text(<<"w">>), Number(63)>>>> }}

MCCalls == Buffers \cup Numbers \cup Starred \cup Lines
=============================================================================
