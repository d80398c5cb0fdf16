------------------------------- MODULE Console -------------------------------
(***************************************************************************)
(* p4/xv6/kernel/console.c: the ring of typed characters, which the        *)
(* keyboard's handler edits at its end and readers empty from its          *)
(* beginning, a line at a time.  All five projects have this file.         *)
(*                                                                         *)
(* input.lock makes a character of the handler one step.  A reader keeps   *)
(* it from character to character; kill does not ask for it.               *)
(***************************************************************************)
EXTENDS Integers, Sequences, SequencesExt

CONSTANTS Reader,    \* processes
          INPUT_BUF, \* size of the ring (128)
          UWrap,     \* indexes are counted modulo UWrap (2^32)
          MaxTyped,  \* bound: characters that are typed
          Asked      \* bound: what a read asks for

Unlocked == "free"

ASSUME ConsoleAssumption ==
  /\ Unlocked \notin Reader
  /\ INPUT_BUF \in Nat \ {0} /\ UWrap \in Nat /\ UWrap > INPUT_BUF
  /\ UWrap % INPUT_BUF = 0 /\ MaxTyped \in Nat /\ Asked \subseteq Nat

VARIABLES ring, r, w, e,      \* input: buf and its indexes
          inputlock,          \* who holds input.lock
          rpc, wants, target, \* readers: where they are, n, and its first value
          given,              \* what the reader has got in this call
          slain,              \* killed
          typed,              \* number of characters typed so far
          unread, line        \* history: the text that can be read, and the
                              \* line that is being typed

readvars == << rpc, wants, target, given, slain >>
convars  == << ring, r, w, e, inputlock, readvars, typed, unread, line >>

Char == {"a", "newline", "^D", "^U", "^H"}

ConInit ==
  /\ ring = [i \in 0 .. INPUT_BUF - 1 |-> "a"] /\ r = 0 /\ w = 0 /\ e = 0
  /\ inputlock = Unlocked
  /\ rpc = [p \in Reader |-> "user"] /\ wants = [p \in Reader |-> 0]
  /\ target = wants /\ given = [p \in Reader |-> << >>]
  /\ slain = [p \in Reader |-> FALSE]
  /\ typed = 0 /\ unread = << >> /\ line = << >>

Plus(i, n) == (i + n) % UWrap

---------------------------------------------------------------------------
(* consoleintr *)

\* Erases the last character of the line, or the line.
Erase ==
  /\ e' = IF e = w THEN e ELSE Plus(e, -1)
  /\ line' = IF line = << >> THEN line ELSE Front(line)

KillLine ==
  LET cells == {n \in 0 .. (e - w) % UWrap :
                  \A m \in 1 .. n : ring[Plus(e, -m) % INPUT_BUF] # "newline"}
  IN  /\ e' = Plus(e, -(CHOOSE n \in cells : \A m \in cells : m <= n))
      /\ line' = << >>

Room_InLine == (e - w) % UWrap < INPUT_BUF    \* mutated: the text unread is forgotten
Room == (e - r) % UWrap < INPUT_BUF

\* Readers are woken at the end of a line, or of the ring.
Ends(c) == c \in {"newline", "^D"} \/ Plus(e, 1) = Plus(r, INPUT_BUF)

Enter(c) ==
  /\ Room
  /\ ring' = [ring EXCEPT ![e % INPUT_BUF] = c] /\ e' = Plus(e, 1)
  /\ IF Ends(c)
     THEN /\ w' = Plus(e, 1)
          /\ rpc' = [p \in Reader |-> IF rpc[p] = "asleep" THEN "woken" ELSE rpc[p]]
     ELSE UNCHANGED << w, rpc >>
  /\ LET full == Len(unread) + Len(line) + 1 = INPUT_BUF
         text == Append(line, c)
     IN  IF full \/ c \in {"newline", "^D"}
         THEN unread' = unread \o text /\ line' = << >>
         ELSE line' = text /\ UNCHANGED unread

Typed(c) ==
  /\ typed < MaxTyped /\ typed' = typed + 1 /\ inputlock = Unlocked
  /\ \/ c = "^U" /\ KillLine /\ UNCHANGED << ring, w, rpc, unread >>
     \/ c = "^H" /\ Erase /\ UNCHANGED << ring, w, rpc, unread >>
     \/ c \notin {"^U", "^H"} /\ Enter(c)
     \/ c \notin {"^U", "^H"} /\ ~Room /\ UNCHANGED << ring, w, e, rpc, unread, line >>
  /\ UNCHANGED << r, inputlock, wants, target, given, slain >>

---------------------------------------------------------------------------
(* consoleread *)

Read(p, n) ==
  /\ rpc[p] = "user" /\ ~slain[p] /\ inputlock = Unlocked
  /\ inputlock' = p /\ rpc' = [rpc EXCEPT ![p] = "reading"]
  /\ wants' = [wants EXCEPT ![p] = n] /\ target' = [target EXCEPT ![p] = n]
  /\ given' = [given EXCEPT ![p] = << >>]
  /\ UNCHANGED << ring, r, w, e, slain, typed, unread, line >>

Done(p) == rpc' = [rpc EXCEPT ![p] = "user"] /\ inputlock' = Unlocked

\* The test of both loops, when there is nothing to take.
ReadNothing(p) ==
  /\ rpc[p] = "reading"
  /\ \/ wants[p] = 0 /\ Done(p)
     \/ wants[p] > 0 /\ r = w /\ slain[p] /\ Done(p)
     \/ /\ wants[p] > 0 /\ r = w /\ ~slain[p]
        /\ rpc' = [rpc EXCEPT ![p] = "tosleep"] /\ UNCHANGED inputlock
  /\ UNCHANGED << ring, r, w, e, wants, target, given, slain, typed, unread, line >>

SleepOnInput(p) ==
  /\ rpc[p] = "tosleep" /\ rpc' = [rpc EXCEPT ![p] = "asleep"] /\ inputlock' = Unlocked
  /\ UNCHANGED << ring, r, w, e, wants, target, given, slain, typed, unread, line >>

Resume(p) ==
  /\ rpc[p] = "woken" /\ inputlock = Unlocked
  /\ rpc' = [rpc EXCEPT ![p] = "reading"] /\ inputlock' = p
  /\ UNCHANGED << ring, r, w, e, wants, target, given, slain, typed, unread, line >>

\* ^D after other characters stays for the next call, which returns 0.
ReadChar(p) ==
  LET c == ring[r % INPUT_BUF] IN
  /\ rpc[p] = "reading" /\ wants[p] > 0 /\ r # w
  /\ IF c = "^D"
     THEN /\ IF wants[p] < target[p] THEN UNCHANGED << r, unread >>
             ELSE r' = Plus(r, 1) /\ unread' = Tail(unread)
          /\ Done(p) /\ UNCHANGED << wants, given >>
     ELSE /\ r' = Plus(r, 1) /\ unread' = Tail(unread)
          /\ given' = [given EXCEPT ![p] = Append(@, c)]
          /\ wants' = [wants EXCEPT ![p] = @ - 1]
          /\ IF c = "newline" THEN Done(p) ELSE UNCHANGED << rpc, inputlock >>
  /\ UNCHANGED << ring, w, e, target, slain, typed, line >>

Slay(p) ==
  /\ ~slain[p] /\ slain' = [slain EXCEPT ![p] = TRUE]
  /\ rpc' = [rpc EXCEPT ![p] = IF @ = "asleep" THEN "woken" ELSE @]
  /\ UNCHANGED << ring, r, w, e, inputlock, wants, target, given, typed, unread, line >>

ConNext ==
  \/ \E c \in Char : Typed(c)
  \/ \E p \in Reader :
       \/ \E n \in Asked : Read(p, n)
       \/ ReadNothing(p) \/ SleepOnInput(p) \/ Resume(p) \/ ReadChar(p) \/ Slay(p)

---------------------------------------------------------------------------
(* Properties. *)

Cells(from, to) ==
  [i \in 1 .. (to - from) % UWrap |-> ring[Plus(from, i - 1) % INPUT_BUF]]

\* However the indexes wrap around and whoever reads: from r to w there is
\* the text that was ended and is not read yet, from w to e the line as it
\* has been edited; editing and typing take nothing from ended lines; a read
\* gives at most one line and never a ^D; and nobody sleeps while there is
\* text, a reader with the lock excepted.
LinesKept ==
  /\ Cells(r, w) = unread /\ Cells(w, e) = line
  /\ \A p \in Reader :
       /\ \A i \in 1 .. Len(given[p]) :
            given[p][i] # "^D" /\ (given[p][i] = "newline" => i = Len(given[p]))
       /\ rpc[p] = "asleep" => unread = << >>
=============================================================================
