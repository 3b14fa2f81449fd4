-------------------------------- MODULE Utf8 --------------------------------
(***************************************************************************)
(* UTF-8 (utf8.cpp) and the calls of the Sys module built on it: byte2char,*)
(* char2byte, utfbytes (sys/Sysmod.cpp).                                   *)
(*                                                                         *)
(* The behaviour feeds bytes one at a time, as they come from a file or an *)
(* array; the operators below are what the code computes from the bytes so *)
(* far.  The reference is RFC 3629's table of well-formed sequences.       *)
(***************************************************************************)
EXTENDS Integers, Sequences, FiniteSets

CONSTANTS Bytes,   \* the bytes fed: the bounds of every range below
          MaxBytes \* bound: bytes fed

Utf8Assumption == Bytes \subseteq 0..255 /\ MaxBytes \in Nat

VARIABLE buf
vars == <<buf>>

-----------------------------------------------------------------------------
(* utf8d, first part: the class of a byte.                                 *)
Class(b) ==
    CASE b <= 127 -> 0
      [] b \in 128..143 -> 1
      [] b \in 144..159 -> 9
      [] b \in 160..191 -> 7
      [] b \in 194..223 -> 2
      [] b = 224 -> 10
      [] b \in 225..236 -> 3
      [] b = 237 -> 4
      [] b \in 238..239 -> 3
      [] b = 240 -> 11
      [] b \in 241..243 -> 6
      [] b = 244 -> 5
      [] OTHER -> 8

(* utf8d, second part: the states, and what each class leads to.           *)
Accept == 0
Reject == 12
States == {0, 12, 24, 36, 48, 60, 72, 84, 96}
FirstByte == <<0, 12, 24, 36, 60, 96, 84, 12, 12, 12, 48, 72>>
Transition(state, class) ==
    IF state = Accept THEN FirstByte[class + 1]
    ELSE CASE state = 24 /\ class \in {1, 7, 9} -> 0
           [] state = 36 /\ class \in {1, 7, 9} -> 24
           [] state = 48 /\ class = 7 -> 24
           [] state = 60 /\ class \in {1, 9} -> 24
           [] state = 72 /\ class \in {7, 9} -> 36
           [] state = 84 /\ class \in {1, 7, 9} -> 36
           [] state = 96 /\ class = 1 -> 36
           [] OTHER -> Reject

(* decode_step                                                             *)
Codepoint(state, rune, b) ==
    IF state # Accept THEN (b % 64) + rune * 64
    ELSE IF Class(b) < 8 THEN b % 2^(8 - Class(b)) ELSE 0
decode_step(d, b) ==
    [state |-> Transition(d.state, Class(b)), rune |-> Codepoint(d.state, d.rune, b)]

(* The decoder after i bytes of s, from byte n + 1 on.                     *)
Start == [state |-> Accept, rune |-> 0]
Decoder(s, n) ==
    LET after[i \in 0..(Len(s) - n)] ==
            IF i = 0 THEN Start ELSE decode_step(after[i - 1], s[n + i])
    IN after

(***************************************************************************)
(* count_codepoints: the characters accepted, and the offset of the last   *)
(* byte of the last one plus one; `last' starts at the first byte.         *)
(***************************************************************************)
Accepted(s) == LET d == Decoder(s, 0) IN {i \in 1..Len(s) : d[i].state = Accept}
Largest(S) == CHOOSE i \in S : \A j \in S : j <= i
codepoint_count(s) == Cardinality(Accepted(s))
byte_count(s) == IF Accepted(s) = {} THEN 1 ELSE Largest(Accepted(s))

(* encode: the bytes of a rune.                                            *)
Tail6(rune, k) == 128 + ((rune \div 64^k) % 64)
encode(rune) ==
    CASE rune <= 127 -> <<rune>>
      [] rune \in 128..2047 -> <<192 + (rune \div 64), Tail6(rune, 0)>>
      [] rune \in 2048..65535 -> <<224 + (rune \div 4096), Tail6(rune, 1), Tail6(rune, 0)>>
      [] rune \in 65536..1114111 -> <<240 + (rune \div 262144), Tail6(rune, 2), Tail6(rune, 1), Tail6(rune, 0)>>

(* decode: the first character of a null-terminated string, 0 for an empty *)
(* one; Invalid stands for the exception.                                  *)
Invalid == -1
DecodedRune(s) ==
    LET d == Decoder(s, 0)
        text == {i \in 1..Len(s) : \A j \in 1..i : s[j] # 0}
        ends == {i \in text : d[i].state = Accept}
    IN IF text = {} THEN 0
       ELSE IF ends = {} THEN Invalid ELSE d[CHOOSE i \in ends : \A j \in ends : i <= j].rune

-----------------------------------------------------------------------------
(* Sys_byte2char(buf, n): the rune, the bytes consumed, and success; on a  *)
(* byte that cannot be, one byte; at the end of the array, none.           *)
Result(rune, count, ok) == [rune |-> rune, count |-> count, ok |-> ok]
UTFerror == 65533
FirstStop(stops) == CHOOSE i \in stops : \A j \in stops : i <= j
byte2char(s, n) ==
    LET d == Decoder(s, n)
        stops == {i \in 1..(Len(s) - n) : d[i].state \in {Accept, Reject}}
    IN IF stops = {} THEN Result(UTFerror, 0, 0)
       ELSE LET i == FirstStop(stops)
            IN IF d[i].state = Accept THEN Result(d[i].rune, i, 1) ELSE Result(UTFerror, 1, 0)

(* Sys_char2byte(c, buf, n): nothing is written unless all bytes fit.      *)
FaultFits(s, n, count) == n + count <= Len(s) + 1
FitsAt(s, n, count) == n + count <= Len(s)
char2byte(rune, s, n) ==
    LET bytes == encode(rune) IN
    IF ~FitsAt(s, n, Len(bytes)) THEN [buf |-> s, count |-> 0]
    ELSE [buf |-> [i \in 1..(IF n + Len(bytes) > Len(s) THEN n + Len(bytes) ELSE Len(s)) |->
                       IF i - n \in DOMAIN bytes THEN bytes[i - n] ELSE s[i]],
          count |-> Len(bytes)]

-----------------------------------------------------------------------------
Init == buf = <<>>
Feed(b) == Len(buf) < MaxBytes /\ buf' = Append(buf, b)
Next == \E b \in Bytes : Feed(b)
Spec == Init /\ [][Next]_vars

-----------------------------------------------------------------------------
(* RFC 3629: the well-formed sequences of bytes for one character.         *)
Cont == 128..191
WellFormed(s) ==
    \/ Len(s) = 1 /\ s[1] \in 0..127
    \/ Len(s) = 2 /\ s[1] \in 194..223 /\ s[2] \in Cont
    \/ /\ Len(s) = 3 /\ s[3] \in Cont
       /\ \/ s[1] = 224 /\ s[2] \in 160..191
          \/ s[1] \in (225..236) \cup {238, 239} /\ s[2] \in Cont
          \/ s[1] = 237 /\ s[2] \in 128..159
    \/ /\ Len(s) = 4 /\ s[3] \in Cont /\ s[4] \in Cont
       /\ \/ s[1] = 240 /\ s[2] \in 144..191
          \/ s[1] \in 241..243 /\ s[2] \in Cont
          \/ s[1] = 244 /\ s[2] \in 128..143

(* The ends of the characters of s, reading from its beginning.            *)
Ends(s) ==
    LET at[n \in 0..Len(s)] ==
            n = 0 \/ \E m \in 0..(n - 1) : at[m] /\ WellFormed(SubSeq(s, m + 1, n))
    IN {n \in 1..Len(s) : at[n]}
Valid(s) == s = <<>> \/ Len(s) \in Ends(s)

(* The beginnings of a character: a byte of each range may finish it.      *)
Unfinished(s) ==
    \E b \in {128, 144, 160} : \E rest \in {<<>>, <<128>>, <<128, 128>>} :
        WellFormed(s \o <<b>> \o rest)

(* The value of a well-formed sequence.                                    *)
ValueOf(s) ==
    CASE Len(s) = 1 -> s[1]
      [] Len(s) = 2 -> (s[1] - 192) * 64 + (s[2] - 128)
      [] Len(s) = 3 -> (s[1] - 224) * 4096 + (s[2] - 128) * 64 + (s[3] - 128)
      [] OTHER -> (s[1] - 240) * 262144 + (s[2] - 128) * 4096 + (s[3] - 128) * 64 + (s[4] - 128)

(* The table driven decoder accepts after exactly the bytes where a        *)
(* well-formed character ends, overlong forms, surrogates and values above *)
(* 10FFFF excluded, however characters and errors follow each other.       *)
AcceptsWellFormed == Accepted(buf) = Ends(buf)

(* byte2char gives the value of the character that starts at any offset;   *)
(* an error consumes one byte, an unfinished character none.               *)
Byte2CharRight ==
    \A n \in 0..(Len(buf) - 1) :
        LET ends == {i \in 1..(Len(buf) - n) : WellFormed(SubSeq(buf, n + 1, n + i))}
            got == byte2char(buf, n)
        IN IF ends # {}
           THEN \E i \in ends : got = Result(ValueOf(SubSeq(buf, n + 1, n + i)), i, 1)
           ELSE got = Result(UTFerror, IF Unfinished(SubSeq(buf, n + 1, Len(buf))) THEN 0 ELSE 1, 0)

(* What a well-formed character decodes to is encoded in the same bytes.   *)
EncodesBack == WellFormed(buf) => encode(DecodedRune(buf)) = buf

(* char2byte writes a character that byte2char reads back at that offset,  *)
(* touches no other byte and never one past the array.                     *)
CharsSurvive ==
    WellFormed(buf) => \A size \in 1..5 : \A n \in 0..(size - 1) :
        LET old == [i \in 1..size |-> 255]
            new == char2byte(DecodedRune(buf), old, n)
        IN /\ Len(new.buf) = size
           /\ new.count = 0 => new.buf = old
           /\ new.count > 0 =>
                  /\ byte2char(new.buf, n) = Result(DecodedRune(buf), new.count, 1)
                  /\ \A i \in 1..size : i - n \notin 1..new.count => new.buf[i] = 255

(* The length test of the string constructor on two bytes or more tells    *)
(* valid UTF-8 from any other bytes.                                       *)
LongStringsChecked == Len(buf) >= 2 => (Len(buf) = byte_count(buf) <=> Valid(buf))

(* "only valid UTF-8 strings can be DisVM strings": the test is that       *)
(* byte_count is the length.                                               *)
StringsChecked == buf # <<>> => (Len(buf) = byte_count(buf) <=> Valid(buf))

(* Sys_utfbytes(buf, n) with n the number of bytes of buf.                 *)
utfbytes(s) == byte_count(s)
(* utfbytes: "Code points should not exceed number of bytes processed".    *)
UtfBytesBounded == utfbytes(buf) <= Len(buf)

(* Every supported rune is decoded from its own encoding.                  *)
SampleRunes == {0, 127, 128, 2047, 2048, 55295, 55296, 57343, 57344, 65535, 65536, 1114111}
RunesRoundTrip == \A r \in SampleRunes : encode(r) = buf => DecodedRune(buf) = r
=============================================================================
