---------------------------- MODULE QueryEscaping ----------------------------
(***************************************************************************)
(* jaeger-client-cpp: the value of a baggage item, of any length, that is  *)
(* put into a header of HTTP and taken out of it.                          *)
(***************************************************************************)
EXTENDS URI

CONSTANTS
    Char,       \* the characters values are made of, of -128..127
    MaxLength   \* bound: the characters of a value

VARIABLE text

TextInit == text = << >>

\* A value of a baggage item is any string.
Extend(ch) == Len(text) < MaxLength /\ text' = Append(text, ch)

TextNext == \E ch \in Char : Extend(ch)

TextSpec == TextInit /\ [][TextNext]_text

-----------------------------------------------------------------------------
\* TracerTest.cpp:403: "ASSERT_EQ(span->context(), *extractedCtx);" after the context
\* has been put into headers of HTTP and taken out of them.
\* A value comes out of the headers as it went in.
RoundTrip == queryUnescape(queryEscape(text)) = text
=============================================================================
