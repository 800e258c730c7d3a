----------------------------- MODULE Callbacks -----------------------------
(***************************************************************************)
(* How a button's callback_data comes back: the ids that the keyboards     *)
(* write, parse_callback_int of src/core/callbacks.py, which reads them in *)
(* most handlers, and the split(":") and int() of the handler of votes.    *)
(*                                                                         *)
(* Texts are sequences of characters after the handler's prefix.  A        *)
(* smaller Base and MaxDigits keep all texts of interest within reach.     *)
(* The state is such a text, one character longer at every step.           *)
(***************************************************************************)
EXTENDS Integers, Sequences, FiniteSetsExt

CONSTANTS
    Base,       \* 10
    MaxDigits,  \* 18
    MaxLength   \* bound on the texts

ASSUME BaseAssumption == Base \in Nat \ {0, 1} /\ MaxDigits \in Nat \ {0} /\ MaxLength \in Nat

VARIABLE text

Digit == 0..(Base - 1)
Foreign == -1      \* a digit of another script (its value is 1)
Minus == -2
Underscore == -3
Space == -4
Colon == -5
Char == Digit \cup {Foreign, Minus, Underscore, Space, Colon}

None == -1

Value(c) == IF c = Foreign THEN 1 ELSE c

(* The number that the digits of s make.                                    *)
Number(s) ==
    LET upTo[i \in 0..Len(s)] ==
            IF i = 0 THEN 0
            ELSE IF s[i] >= Foreign THEN Base * upTo[i - 1] + Value(s[i])
            ELSE upTo[i - 1]
    IN  upTo[Len(s)]

(* f"{n}"                                                                   *)
Decimal[n \in Nat] == IF n < Base THEN <<n>> ELSE Append(Decimal[n \div Base], n % Base)

Power[n \in Nat] == IF n = 0 THEN 1 ELSE Base * Power[n - 1]

Ids == 0..(Power[MaxDigits] - 1)

-----------------------------------------------------------------------------
(* Python's int(), which the parser does not trust: spaces around, a sign,  *)
(* digits of any script, single underscores between digits.                 *)

Stripped(s) ==
    LET solid == {i \in 1..Len(s) : s[i] # Space}
    IN  IF solid = {} THEN <<>> ELSE SubSeq(s, Min(solid), Max(solid))

Unsigned(s) == IF s # <<>> /\ s[1] = Minus THEN Tail(s) ELSE s

IntAccepts(s) ==
    LET u == Unsigned(Stripped(s))
    IN  /\ u # <<>>
        /\ \A i \in 1..Len(u) :
              \/ u[i] >= Foreign
              \/ u[i] = Underscore /\ i \notin {1, Len(u)} /\ u[i - 1] >= Foreign

PyInt(s) == IF Stripped(s)[1] = Minus THEN -Number(s) ELSE Number(s)

-----------------------------------------------------------------------------
(* Mutant of ParseCallbackInt: isdigit() without isascii().                 *)
ParseCallbackIsDigit(s) ==
    IF Len(s) \in 1..MaxDigits /\ \A i \in 1..Len(s) : s[i] >= Foreign THEN Number(s) ELSE None

(* On what follows the prefix that the handler's filter has matched.        *)
ParseCallbackInt(s) ==
    IF Len(s) \in 1..MaxDigits /\ \A i \in 1..Len(s) : s[i] \in Digit THEN Number(s) ELSE None

(* Where the part of callback.data.split(":") that begins at i ends, and    *)
(* the two parts vote reads; without a colon it raises.                     *)
Cut(s, i) == Min({j \in i..Len(s) : s[j] = Colon} \cup {Len(s) + 1})
PollPart(s) == SubSeq(s, 1, Cut(s, 1) - 1)
OptionPart(s) == SubSeq(s, Cut(s, 1) + 1, Cut(s, Cut(s, 1) + 1) - 1)

VoteRaises(s) ==
    Cut(s, 1) > Len(s) \/ ~IntAccepts(PollPart(s)) \/ ~IntAccepts(OptionPart(s))

(* Mutant of VoteParsed: the parts swapped.                                 *)
VoteParsedSwapped(s) == [poll |-> PyInt(OptionPart(s)), option |-> PyInt(PollPart(s))]

VoteParsed(s) == [poll |-> PyInt(PollPart(s)), option |-> PyInt(OptionPart(s))]

-----------------------------------------------------------------------------
TextInit == text = <<>>
Lengthen(c) == Len(text) < MaxLength /\ text' = Append(text, c)
TextNext == \E c \in Char : Lengthen(c)
TextSpec == TextInit /\ [][TextNext]_text

-----------------------------------------------------------------------------
(* Properties. *)

(* The parser reads what the keyboards write and nothing more.  The id of a *)
(* button is the id that the handler gets, up to the largest of MaxDigits   *)
(* digits; and what is accepted names one id only: leading zeros aside it   *)
(* is the text of that id's button, and int() reads it the same.            *)
ParsesIdsExactly ==
    LET id == ParseCallbackInt(text)
    IN  /\ \A n \in Ids : text = Decimal[n] => id = n
        /\ id # None =>
             /\ id \in Ids
             /\ \E z \in 0..Len(text) : text = [i \in 1..z |-> 0] \o Decimal[id]
             /\ IntAccepts(text) /\ PyInt(text) = id

(* The vote's own parsing agrees with the strict parser wherever that       *)
(* accepts both ids, the buttons of a poll among them, and never raises     *)
(* there.                                                                   *)
ParsersAgree ==
    \A i \in 1..Len(text) : text[i] = Colon =>
        LET poll == ParseCallbackInt(SubSeq(text, 1, i - 1))
            option == ParseCallbackInt(SubSeq(text, i + 1, Len(text)))
        IN  poll # None /\ option # None =>
                ~VoteRaises(text) /\ VoteParsed(text) = [poll |-> poll, option |-> option]

=============================================================================
