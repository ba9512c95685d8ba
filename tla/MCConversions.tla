--------------------------- MODULE MCConversions ----------------------------
(* Conversions for TLC: every command line of up to four tokens on one     *)
(* file, the lines that run a command on every file of four kinds of       *)
(* bytes; lists of up to three entries with texts of up to three bytes.    *)
EXTENDS Conversions, FiniteSetsExt

I1 == <<1, 0, 0, 1, 2>>
I2 == <<1, 1, 1, 1, 1>>
Bytes == {<<1, 10>>, <<0, 0>>, <<2, 1>>, <<1, 1>>}

MCSample == [b \in 1..Size |-> <<1, 1>>]

(* Tokens of a command line, written as NvImei takes them, and its numbers *)
(* for an OFFSET that is negative, too big, or no number.                  *)
Option(kind, words, id, o) ==
    [kind |-> kind, n |-> words, name |-> "none", imei |-> id, offset |-> o]
Word(w) == [Option("arg", 1, <<>>, 0) EXCEPT !.name = w]
ImeiGiven(id, words)  == Option("i", words, id, 0)
OffsetGiven(o, words) == Option("o", words, <<>>, o)
Negative == -1
TooBig   == -2
Junk     == -3

MCTokens ==
    {Word(w) : w \in {"FILE", "list-supported", "read-imei", "write-imei", "bruteforce-imei"}}
        \union {Option("h", 1, <<>>, 0), Option("?", 1, <<>>, 0)}
        \union {ImeiGiven(I1, 1), ImeiGiven(I1, 2), ImeiGiven(<<1, 2>>, 1)}
        \union {OffsetGiven(o, 1) : o \in {0, Negative, Junk}}
        \union {OffsetGiven(1, 2)}

MCRuns ==
    LET Run(cmd) == <<Word("FILE"), Word(cmd)>>
    IN  {Run("write-imei") \o <<ImeiGiven(id, 1), OffsetGiven(o, 2)>> :
            id \in {I1, I2}, o \in (0..2) \union {Junk, TooBig, UIntRange}}
        \union {Run("bruteforce-imei") \o <<ImeiGiven(id, 1)>> : id \in {I1, I2}}
        \union {Run("read-imei") \o <<OffsetGiven(o, 1)>> : o \in {0, 2, Size + 2}}

MCFiles == UNION {[1..k -> Bytes] : k \in {1, Size - 1, Size, Size + 1}}

MCBeyond == {<<<<1, 10>>, <<0, 0>>, <<2, 1>>>>, <<<<0, 0>>, <<2, 1>>, <<1, 10>>>>,
             <<<<1, 1>>, <<1, 1>>, <<1, 1>>>>}

(* The places of entries with texts of up to three bytes. *)
Places(texts) ==
    [k \in 1..(Len(texts) + 1) |->
        1 + MapThenSumSet(LAMBDA j : Entry + texts[j], 1..(k - 1))]
MCLists == {Places(texts) : texts \in UNION {[1..k -> 0..3] : k \in 0..3}}
=============================================================================
