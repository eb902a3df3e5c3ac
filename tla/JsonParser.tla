----------------------------- MODULE JsonParser -----------------------------
(***************************************************************************)
(* json.c: the recursive-descent parser of the configuration file, with    *)
(* its calls on an explicit stack, and the elements it allocates.  The     *)
(* text is a sequence of tokens: a literal, a digit, a mark, a character   *)
(* of a string, an escape sequence ("escape"), a backslash that begins     *)
(* none, a control character, a byte from 0x80 up ("utf8").                *)
(***************************************************************************)
EXTENDS Integers, Sequences, SequencesExt

CONSTANT Inputs

VARIABLES
  input,
  pos,          \* of the next token: stream.s
  pc,
  stack,        \* the unfinished elements: [kind, items, key]
  x,            \* the element just parsed
  number,       \* the number being parsed
  live          \* elements allocated and not freed

vars == <<input, pos, pc, stack, x, number, live>>

Quote == "quote"
Literals == {"null", "true", "false"}
Digits == {"0", "5"}
DigitOf == [d \in Digits |-> IF d = "0" THEN 0 ELSE 5]
CloseOf == [array |-> "]", object |-> "}"]
Invalid == [kind |-> "invalid"]
NoKey == <<"no key">>      \* a text of no input
NewNumber == [sign |-> 1, n |-> 0, e |-> 0, expSign |-> 1, exp |-> 0]

At == IF pos <= Len(input) THEN input[pos] ELSE "end"
Top == stack[Len(stack)]
Pop == stack' = Front(stack)
Push(kind) == stack' = Append(stack, [kind |-> kind, items |-> <<>>, key |-> NoKey])
Consume(after) == pos' = pos + 1 /\ pc' = after
ParsingKey == stack # <<>> /\ Top.kind = "member" /\ Top.key = NoKey

\* The elements of a tree.
RECURSIVE Size(_)
Size(y) ==
  IF y.kind \in {"array", "object", "member"}
  THEN 1 + FoldSeq(LAMBDA item, n : Size(item) + n, 0, y.items) ELSE 1

SizeOfItems == FoldSeq(LAMBDA item, n : Size(item) + n, 0, Top.items)

Init ==
  /\ input \in Inputs
  /\ pos = 1 /\ pc = "element" /\ stack = <<>> /\ x = Invalid /\ number = NewNumber
  /\ live = 1

Whitespace ==
  /\ pc \in {"element", "open", "key", "colon", "return"} /\ At = " "
  /\ Consume(pc)
  /\ UNCHANGED <<input, stack, x, number, live>>

\* json_parse_value; anything else is ill-formed.
Literal ==
  /\ pc = "element" /\ At \in Literals
  /\ x' = [kind |-> At] /\ Consume("return")
  /\ UNCHANGED <<input, stack, number, live>>

StartNumber ==
  /\ pc = "element" /\ At \in Digits \cup {"-"}
  /\ number' = NewNumber /\ pc' = "int"
  /\ UNCHANGED <<input, pos, stack, x, live>>

StartString ==
  /\ pc = "element" /\ At = Quote
  /\ x' = [kind |-> "string", text |-> <<>>] /\ Consume("string")
  /\ UNCHANGED <<input, stack, number, live>>

StartList ==
  /\ pc = "element" /\ At \in {"[", "{"}
  /\ Push(IF At = "[" THEN "array" ELSE "object") /\ Consume("open")
  /\ UNCHANGED <<input, x, number, live>>

NoValue ==
  /\ pc = "element" /\ At \notin Literals \cup Digits \cup {" ", "-", Quote, "[", "{"}
  /\ pc' = "failed"
  /\ UNCHANGED <<input, pos, stack, x, number, live>>

-----------------------------------------------------------------------------
\* json_parse_int: a digit, digits that do not begin with 0, or - and again.
Integer ==
  /\ pc = "int"
  /\ CASE At = "0" -> Consume("frac") /\ UNCHANGED number
       [] At \in Digits \ {"0"} -> pc' = "digits" /\ UNCHANGED <<pos, number>>
       [] At = "-" -> Consume("int") /\ number' = [number EXCEPT !.sign = -@]
       [] OTHER -> pc' = "failed" /\ UNCHANGED <<pos, number>>
  /\ UNCHANGED <<input, stack, x, live>>

IntDigits ==
  /\ pc = "digits"
  /\ IF At \in Digits
     THEN number' = [number EXCEPT !.n = 10 * @ + DigitOf[At]] /\ Consume(pc)
     ELSE number' = [number EXCEPT !.n = number.sign * @] /\ pc' = "frac" /\ UNCHANGED pos
  /\ UNCHANGED <<input, stack, x, live>>

\* Mutant of FracDigit: the fraction is added in any case.
FracDigitAdded == number' = [number EXCEPT !.n = 10 * @ + DigitOf[At], !.e = @ - 1]

\* The fraction is subtracted if the number so far is below 0.
FracDigit ==
  number' = [number EXCEPT !.n = 10 * @ + IF @ < 0 THEN - DigitOf[At] ELSE DigitOf[At],
                           !.e = @ - 1]

Frac ==
  /\ \/ pc = "frac" /\ At = "." /\ Consume("point") /\ UNCHANGED number
     \/ pc = "frac" /\ At # "." /\ pc' = "exp" /\ UNCHANGED <<pos, number>>
     \/ pc = "point" /\ At \notin Digits /\ pc' = "failed" /\ UNCHANGED <<pos, number>>
     \/ pc \in {"point", "fraction"} /\ At \in Digits /\ FracDigit /\ Consume("fraction")
     \/ pc = "fraction" /\ At \notin Digits /\ pc' = "exp" /\ UNCHANGED <<pos, number>>
  /\ UNCHANGED <<input, stack, x, live>>

NumberRead ==
  /\ x' = [kind |-> "number", n |-> number.n, e |-> number.e + number.expSign * number.exp]
  /\ pc' = "return"
  /\ UNCHANGED <<pos, number>>

Exp ==
  /\ \/ pc = "exp" /\ At = "e" /\ Consume("sign") /\ UNCHANGED <<x, number>>
     \/ pc = "exp" /\ At # "e" /\ NumberRead
     \/ /\ pc = "sign" /\ At \in {"+", "-"} /\ Consume("power")
        /\ number' = [number EXCEPT !.expSign = IF At = "-" THEN -1 ELSE 1] /\ UNCHANGED x
     \/ /\ pc \in {"sign", "power", "exponent"} /\ At \in Digits /\ Consume("exponent")
        /\ number' = [number EXCEPT !.exp = 10 * @ + DigitOf[At]] /\ UNCHANGED x
     \/ /\ \/ pc = "sign" /\ At \notin Digits \cup {"+", "-"}
           \/ pc = "power" /\ At \notin Digits
        /\ pc' = "failed" /\ UNCHANGED <<pos, x, number>>
     \/ pc = "exponent" /\ At \notin Digits /\ NumberRead
  /\ UNCHANGED <<input, stack, live>>

-----------------------------------------------------------------------------
\* What *s < 0x1F is true of, s being signed; a backslash must begin an escape.
NoCharacter == {"control", "utf8", "end", "backslash"}

Character ==
  /\ pc = "string" /\ At \notin NoCharacter \cup {Quote}
  /\ x' = [x EXCEPT !.text = Append(@, At)] /\ Consume(pc)
  /\ UNCHANGED <<input, stack, number, live>>

EndOfString ==
  /\ pc = "string" /\ At = Quote
  /\ IF ParsingKey
     THEN stack' = [stack EXCEPT ![Len(stack)].key = x.text] /\ Consume("colon")
     ELSE UNCHANGED stack /\ Consume("return")
  /\ UNCHANGED <<input, x, number, live>>

BadString ==
  /\ pc = "string" /\ At \in NoCharacter
  /\ pc' = "failed"
  /\ IF ParsingKey THEN Pop ELSE UNCHANGED stack
  /\ UNCHANGED <<input, pos, x, number, live>>

\* json_parse_member: the key, the colon, and an element for the value.
StartKey ==
  /\ pc = "key" /\ At # " "
  /\ IF At = Quote
     THEN /\ Push("member") /\ x' = [kind |-> "string", text |-> <<>>] /\ Consume("string")
     ELSE pc' = "failed" /\ UNCHANGED <<pos, stack, x>>
  /\ UNCHANGED <<input, number, live>>

Colon ==
  /\ pc = "colon" /\ At # " "
  /\ IF At = ":" THEN Consume("element") /\ live' = live + 1 /\ UNCHANGED stack
     ELSE pc' = "failed" /\ Pop /\ UNCHANGED <<pos, live>>
  /\ UNCHANGED <<input, x, number>>

-----------------------------------------------------------------------------
ItemOf(kind) == IF kind = "array" THEN "element" ELSE "key"

\* An empty array or object, or its first element, for which y is allocated.
Open ==
  /\ pc = "open" /\ At # " "
  /\ IF At = CloseOf[Top.kind]
     THEN /\ x' = [kind |-> Top.kind, items |-> <<>>] /\ Pop /\ Consume("return")
          /\ UNCHANGED live
     ELSE pc' = ItemOf(Top.kind) /\ live' = live + 1 /\ UNCHANGED <<pos, stack, x>>
  /\ UNCHANGED <<input, number>>

Returned(kinds) == pc = "return" /\ At # " " /\ stack # <<>> /\ Top.kind \in kinds

MemberRead ==
  /\ Returned({"member"})
  /\ x' = [kind |-> "member", key |-> Top.key, items |-> <<x>>] /\ Pop
  /\ UNCHANGED <<input, pos, pc, number, live>>

Item ==
  /\ Returned({"array", "object"}) /\ At = ","
  /\ stack' = [stack EXCEPT ![Len(stack)].items = Append(@, x)]
  /\ live' = live + 1
  /\ Consume(ItemOf(Top.kind))
  /\ UNCHANGED <<input, x, number>>

Close ==
  /\ Returned({"array", "object"}) /\ At = CloseOf[Top.kind]
  /\ x' = [kind |-> Top.kind, items |-> Append(Top.items, x)] /\ Pop /\ Consume("return")
  /\ UNCHANGED <<input, number, live>>

\* Mutant of Unclosed: the elements so far are not freed.
UnclosedKept ==
  /\ Returned({"array", "object"}) /\ At \notin {",", CloseOf[Top.kind]}
  /\ pc' = "failed" /\ Pop
  /\ UNCHANGED <<input, pos, x, number, live>>

\* Neither: json_free(y) and what follows it.
Unclosed ==
  /\ Returned({"array", "object"}) /\ At \notin {",", CloseOf[Top.kind]}
  /\ live' = live - (SizeOfItems + Size(x))
  /\ pc' = "failed" /\ Pop
  /\ UNCHANGED <<input, pos, x, number>>

\* The caller of a failed call copies the error and frees its own elements:
\* the value of a member, or y and what follows it, the failed one included.
Unwind ==
  /\ pc = "failed" /\ stack # <<>>
  /\ live' = live - (SizeOfItems + 1) /\ Pop
  /\ UNCHANGED <<input, pos, pc, x, number>>

\* json_parse returns x; what is left of the text is not looked at.
Finish ==
  /\ stack = <<>> /\ pc \in {"failed", "return"}
  /\ pc = "return" => At # " "
  /\ x' = IF pc = "failed" THEN Invalid ELSE x
  /\ pc' = "done"
  /\ UNCHANGED <<input, pos, stack, number, live>>

Next ==
  \/ Whitespace \/ Literal \/ StartNumber \/ StartString \/ StartList \/ NoValue
  \/ Integer \/ IntDigits \/ Frac \/ Exp
  \/ Character \/ EndOfString \/ BadString \/ StartKey \/ Colon
  \/ Open \/ MemberRead \/ Item \/ Close \/ Unclosed \/ Unwind \/ Finish

Spec == Init /\ [][Next]_vars

-----------------------------------------------------------------------------
(***************************************************************************)
(* The grammar of json.org: the values that a text denotes (one at most).  *)
(***************************************************************************)
RECURSIVE Strip(_)
Strip(s) ==
  CASE s = <<>> -> s
    [] s # <<>> /\ s[1] = " " -> Strip(Tail(s))
    [] s # <<>> /\ s[1] # " " /\ Last(s) = " " -> Strip(Front(s))
    [] OTHER -> s

AreDigits(s) == s # <<>> /\ ToSet(s) \subseteq Digits
Numeral(s) == FoldLeft(LAMBDA n, d : 10 * n + DigitOf[d], 0, s)
Slice(s, from, to) == SubSeq(s, from, to)

\* The exponent that s is, 0 if it is empty.
Exponents(s) ==
  LET signed == Len(s) > 1 /\ s[2] \in {"+", "-"}
      digits == Slice(s, IF signed THEN 3 ELSE 2, Len(s))
  IN  CASE s = <<>> -> {0}
        [] s # <<>> /\ (s[1] # "e" \/ ~ AreDigits(digits)) -> {}
        [] OTHER -> {IF signed /\ s[2] = "-" THEN - Numeral(digits) ELSE Numeral(digits)}

Numbers(s) ==
  LET sign == IF s[1] = "-" THEN -1 ELSE 1
      t == IF s[1] = "-" THEN Tail(s) ELSE s
      Whole(i) == /\ AreDigits(Slice(t, 1, i)) /\ (i > 1 => t[1] # "0")
      Fraction(i, j) == j = i \/ (j > i + 1 /\ t[i + 1] = "." /\ AreDigits(Slice(t, i + 2, j)))
      cuts == {c \in (1 .. Len(t)) \X (1 .. Len(t)) :
                 c[1] <= c[2] /\ Whole(c[1]) /\ Fraction(c[1], c[2])}
  IN  UNION {{[kind |-> "number", n |-> sign * Numeral(Slice(t, 1, c[1]) \o Slice(t, c[1] + 2, c[2])),
               e |-> exp - IF c[2] = c[1] THEN 0 ELSE c[2] - c[1] - 1]
               : exp \in Exponents(Slice(t, c[2] + 1, Len(t)))} : c \in cuts}

Strings(s) ==
  LET text == Slice(s, 2, Len(s) - 1) IN
  IF /\ Len(s) > 1 /\ s[1] = Quote /\ Last(s) = Quote
     /\ ToSet(text) \cap {Quote, "control", "backslash"} = {}
  THEN {text} ELSE {}

RECURSIVE Values(_), Lists(_, _)

Members(s) ==
  UNION {{[kind |-> "member", key |-> key, items |-> <<value>>] :
            key \in Strings(Strip(Slice(s, 1, k - 1))), value \in Values(Slice(s, k + 1, Len(s)))}
         : k \in {l \in DOMAIN s : s[l] = ":"}}

\* The lists of elements or members that s separates by commas.
Lists(kind, s) ==
  LET Items(t) == IF kind = "array" THEN Values(t) ELSE Members(t) IN
  {<<item>> : item \in Items(s)}
    \cup UNION {{<<item>> \o rest : item \in Items(Slice(s, 1, k - 1)),
                                    rest \in Lists(kind, Slice(s, k + 1, Len(s)))}
                : k \in {l \in DOMAIN s : s[l] = ","}}

Values(text) ==
  LET s == Strip(text)
      inner == Slice(s, 2, Len(s) - 1)
      Of(kind) == {[kind |-> kind, items |-> list] :
                     list \in IF Strip(inner) = <<>> THEN {<<>>} ELSE Lists(kind, inner)}
  IN  IF s = <<>> THEN {}
      ELSE CASE s[1] \in Literals -> IF Len(s) = 1 THEN {[kind |-> s[1]]} ELSE {}
             [] s[1] \in Digits \cup {"-"} -> Numbers(s)
             [] s[1] = Quote -> {[kind |-> "string", text |-> t] : t \in Strings(s)}
             [] s[1] = "[" /\ Last(s) = "]" -> Of("array")
             [] s[1] = "{" /\ Last(s) = "}" -> Of("object")
             [] OTHER -> {}

HasPart(part) == \E k \in DOMAIN input : IsPrefix(part, Slice(input, k, Len(input)))

\* Where json.c differs from json.org: it reads --5 as 5 and -0.5 as 0.5, and
\* has no bytes from 0x80 up in strings.
Deviates == HasPart(<<"-", "-">>) \/ HasPart(<<"-", "0", ".">>) \/ HasPart(<<"utf8">>)

(***************************************************************************)
(* json_parse follows the grammar that json.h:5 refers to.  The tree it    *)
(* returns is what the text it has read denotes, and it refuses no text    *)
(* that denotes something.  (It leaves the text behind the first value     *)
(* unread: "1 2" is 1.)                                                    *)
(***************************************************************************)
TreeIsTheText ==
  pc = "done" /\ ~ Deviates =>
    IF x = Invalid THEN Values(input) = {}
    ELSE x \in Values(Slice(input, 1, pos - 1))

(***************************************************************************)
(* The elements that were allocated and not freed are those of the tree    *)
(* that json_parse returns, whatever part of an array, an object or a      *)
(* member the text breaks off in: none is lost and none is freed twice     *)
(* (the error paths of json_parse_array, _member and _object).             *)
(***************************************************************************)
NoElementLost == pc = "done" => live = Size(x)
=============================================================================
