------------------------------ MODULE Katakana ------------------------------
(***************************************************************************)
(* romaji_to_katakana(src, dst, dst_size) of romaji.rs: romaji_to_kana     *)
(* (module Romaji), and if that did not return -1, hira_to_kata over all   *)
(* of dst, one step per pass of its loop.  hira_to_kata is not told how    *)
(* long the string is: it stops at the first NUL it steps on.              *)
(***************************************************************************)
EXTENDS Romaji, KatakanaRef

VARIABLES
  p,    \* where hira_to_kata's loop is
  at    \* "convert", "shift", "done"

kvars == <<vars, p, at>>

KInit == Init /\ p = 0 /\ at = "convert"

Convert == at = "convert" /\ Next /\ UNCHANGED <<p, at>>

\* r < 0 returns -1 with dst as it is.
Converted ==
  /\ at = "convert" /\ pc \in {"ok", "failed"}
  /\ at' = IF pc = "ok" THEN "shift" ELSE "done"
  /\ UNCHANGED <<vars, p>>

\* The length of a character, by its first byte.
Width(b) == IF b < 128 THEN 1
            ELSE IF b \in 192..223 THEN 2 ELSE IF IsLead(b) THEN 3 ELSE 4

Decode(b0, b1, b2) == (b0 % 16) * 4096 + (b1 % 64) * 64 + (b2 % 64)

\* Mutant: the marker bits of the last byte are forgotten.
EncodeBare(cp) == <<224 + (cp \div 4096), 128 + ((cp \div 64) % 64), cp % 64>>

Encode(cp) == <<224 + (cp \div 4096), 128 + ((cp \div 64) % 64), 128 + (cp % 64)>>

\* Mutant: the block ends with the n.
HiraganaToN == \h3041..\h3093

Hiragana == \h3041..\h3096

Reading == at = "shift" /\ p < dst_size /\ dst[p] # 0

\* A three-byte character; kana are written back 0x60 further on.
Kana3 == IsLead(dst[p]) /\ p + 2 < dst_size

\* Mutant: only a character that was shifted is stepped over.
StepIfShifted(cp) == p' = IF cp \in Hiragana THEN p + 3 ELSE p
Step(cp) == p' = p + 3

Shift ==
  /\ Reading /\ Kana3
  /\ LET cp == Decode(dst[p], dst[p + 1], dst[p + 2])
         k == Encode(cp + 96)
     IN  /\ dst' = IF cp \in Hiragana
                   THEN [dst EXCEPT ![p] = k[1], ![p + 1] = k[2], ![p + 2] = k[3]] ELSE dst
         /\ Step(cp)
  /\ UNCHANGED <<src, dst_size, pos, i, pc, at>>

Skip ==
  /\ Reading /\ ~IsLead(dst[p])
  /\ p' = p + Width(dst[p])
  /\ UNCHANGED <<vars, at>>

\* A NUL, the end of the buffer, or a three-byte character cut by it.
EndShift ==
  /\ at = "shift" /\ (Reading => IsLead(dst[p]) /\ ~Kana3)
  /\ at' = "done"
  /\ UNCHANGED <<vars, p>>

hira_to_kata == Shift \/ Skip \/ EndShift

KNext == Convert \/ Converted \/ hira_to_kata

\* The call is not suspended for ever.
KSpec == KInit /\ [][KNext]_kvars /\ WF_kvars(KNext)

-----------------------------------------------------------------------------
(* Properties. *)

\* The bytes that follow the first byte of a UTF-8 character.
Trail(b) == IF b < 192 THEN 0 ELSE IF b < 224 THEN 1 ELSE IF b < 240 THEN 2 ELSE 3

\* s is a sequence of whole characters, and no two equal bytes of them, which
\* to_kana takes for a doubled consonant, stand side by side.
Clean(s) ==
  \A k \in DOMAIN s :
    /\ \A j \in 1..Trail(s[k]) : k + j \in DOMAIN s /\ IsCont(s[k + j])
    /\ IsCont(s[k]) => \E j \in 1..3 : k - j \in DOMAIN s /\ Trail(s[k - j]) >= j
    /\ (s[k] >= 128 /\ k < Len(s)) => s[k] # s[k + 1]

\* "3-byte sequences stay 3 bytes so length is unchanged": while and after the
\* shift dst holds a string of exactly the length the call returns, the loop,
\* which is not told that length, never steps over the NUL, and the bytes
\* behind it are as they were before the call.
LengthKept ==
  (Clean(src) /\ pc = "ok") =>
    /\ dst[pos] = 0
    /\ \A k \in 0..(pos - 1) : dst[k] # 0
    /\ p <= pos
    /\ \A k \in (pos + 1)..(dst_size - 1) : dst[k] \in Junk

\* "the header `romaji.h` is unchanged, only the build step differs"
\* (Dictionary_Resources/README.md:38): the shift of romaji.rs leaves the string that the one of
\* romaji.c leaves.
SameAsC ==
  (at = "done" /\ pc = "ok" /\ Clean(src)) => Written = KataOf(KanaWithin(src, dst_size - 1))

\* The shift ends, also on text whose NUL it has overwritten or stepped over.
ShiftEnds == <>(at = "done")
=============================================================================
