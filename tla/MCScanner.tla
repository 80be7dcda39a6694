----------------------------- MODULE MCScanner ------------------------------
(***************************************************************************)
(* The scanner on every short text over a few small alphabets, each one    *)
(* holding the runes that one family of tokens is made of.                 *)
(***************************************************************************)
EXTENDS Scanner

CONSTANTS
  QuoteLen, IdentLen, NumberLen, CommentLen, OperatorLen, RegexLen  \* lengths of texts

Texts(alphabet, len) == UNION {[1 .. l -> alphabet] : l \in 0 .. len}

MCLetter == {"a", "n", "s"}
MCDigit == {"1"}
MCBlank == {" "}
MCMicro == "u"
MCKeyword == {<<"a", "s">>}
MCRune ==
  MCLetter \cup MCDigit \cup MCBlank \cup {MCMicro}
  \cup {"+", "-", "*", "/", "%", "&", "|", "^", "=", ">", "<", "(", ")", ",",
        ";", ":", "!", "~", "_", "\"", "'", ".", "$", "\\", "LF", "CR", "NUL"}

\* Strings and quoted identifiers; escapes and line ends.
QuoteTexts == Texts({"a", "n", "\"", "'", "\\", "LF", "$"}, QuoteLen)

\* Integers, decimals, durations, and what may touch them.
NumberTexts == Texts({"1", ".", "a", "u"}, NumberLen)

\* Comments, line ends of every kind, and a NUL rune in the text.
CommentTexts == Texts({"-", "/", "*", "LF", "CR", "NUL"}, CommentLen)

\* Operators, and a rune that starts no token.
OperatorTexts ==
  Texts({"+", "%", "&", "|", "^", "(", ")", ",", ";"}, 1)
  \cup Texts({"=", "!", "~", ">", "<", ":", " "}, OperatorLen)

\* Regular expressions, which the parser asks for at a slash.
RegexTexts == Texts({"/", "\\", "a", "LF", "=", "~"}, RegexLen)

\* Identifiers, keywords and bound parameters, at the end of the text or not.
IdentTexts == Texts({"a", "s", "_", "1", "$", " "}, IdentLen)

\* One text: a string behind a blank.
StringBehindBlank == {<<" ", "'", "a", "'">>}

MCInput == IdentTexts \cup QuoteTexts \cup NumberTexts \cup CommentTexts \cup OperatorTexts \cup RegexTexts
=============================================================================
