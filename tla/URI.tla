--------------------------------- MODULE URI ---------------------------------
(***************************************************************************)
(* jaeger-client-cpp, net/URI.cpp: how the value of a baggage item is      *)
(* escaped for a header of HTTP, and read from one.                        *)
(*                                                                         *)
(* A character is its code, of a signed char.  As for the locale "C" no    *)
(* negative one is a letter.                                               *)
(***************************************************************************)
EXTENDS Integers, Sequences, SequencesExt

Digits == 48..57
Letters == (65..90) \cup (97..122)
Percent == 37

isHex(ch) == ch \in Digits \cup (65..70) \cup (97..102)

decodeHex(ch) ==
    IF ch \in Digits THEN ch - 48 ELSE IF ch <= 70 THEN ch - 55 ELSE ch - 87

\* Of "-._~" too.
isUnreserved(ch) == ch \in Letters \cup Digits \cup {45, 46, 95, 126}

\* What a stream writes of n < 16 with std::hex, and with std::uppercase.
Hex(n, letter) == IF n < 10 THEN n + 48 ELSE n - 10 + letter

\* The int that a character is converted to is written without leading zeros, and a
\* negative one in two's complement with 32 bits.
HexOfInt(n) ==
    IF n < 0 THEN [i \in 1..6 |-> 70] \o <<Hex((n + 256) \div 16, 65), Hex(n % 16, 65)>>
    ELSE IF n < 16 THEN <<Hex(n, 65)>> ELSE <<Hex(n \div 16, 65), Hex(n % 16, 65)>>

Escaped(ch) == IF isUnreserved(ch) THEN <<ch>> ELSE <<Percent>> \o HexOfInt(ch)

queryEscape(input) == FoldLeft(LAMBDA out, ch : out \o Escaped(ch), << >>, input)

-----------------------------------------------------------------------------
\* One character on: the text so far, where in an escape it is, and the first digit.
Scan(at, ch) ==
    LET Put(chars) == [out |-> at.out \o chars, state |-> "Default", hex |-> 0]
        byte == at.hex * 16 + decodeHex(ch)
    IN  CASE at.state = "Default" /\ ch = Percent -> [at EXCEPT !.state = "Percent"]
          [] at.state = "Default" /\ ch # Percent -> Put(<<ch>>)
          [] at.state = "Percent" /\ isHex(ch) ->
                [at EXCEPT !.state = "FirstHex", !.hex = decodeHex(ch)]
          [] at.state = "Percent" /\ ~isHex(ch) -> Put(<<Percent, ch>>)
          [] at.state = "FirstHex" /\ isHex(ch) ->
                Put(<<IF byte < 128 THEN byte ELSE byte - 256>>)
          [] at.state = "FirstHex" /\ ~isHex(ch) -> Put(<<Percent, Hex(at.hex, 97), ch>>)

Scanned(input) == FoldLeft(Scan, [out |-> << >>, state |-> "Default", hex |-> 0], input)

\* An escape that the end cuts off is lost.
queryUnescape(input) == Scanned(input).out
=============================================================================
