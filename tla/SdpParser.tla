------------------------------ MODULE SdpParser ------------------------------
(***************************************************************************)
(* sdp_demarshaller_msg (sdp.c): the line parser that a client runs over   *)
(* the payload of a DESCRIBE response.  A step is a line; the loop over    *)
(* the attributes of a medium is nested in the loop over the lines and     *)
(* leaves to it the line it stopped at.                                    *)
(*                                                                         *)
(* A line is its key letter and its parts: the pieces between colons of an *)
(* attribute, the words of any other line (of "v" and "s" a single one,    *)
(* which the code takes whole).  Empty lines are gone: strtok skips them.  *)
(***************************************************************************)
EXTENDS Integers, Sequences, FiniteSets

CONSTANTS
  Texts,       \* the payloads, as sequences of lines
  MaxMedia,    \* MAX_MEDIA_NUM
  BufferSize,  \* the arrays that words are scanned into
  WordLen(_)   \* strlen

ASSUME SdpAssumption ==
  /\ MaxMedia \in Nat
  /\ Texts \subseteq Seq([key : STRING, parts : Seq(STRING)])

VARIABLES
  lines,    \* the payload
  at,       \* "top", "attrs" (in the nested loop), "done" or "trap"
  j,        \* the line that target is at, or that strtok returns next
  session,  \* sdp's version, origin, name and time; <<>> while unassigned
  media,    \* the entries of sdp->media written so far
  num,      \* sdp->media_num
  heads     \* history: where the "m" line of each entry is

sdpVars == <<lines, at, j, session, media, num, heads>>

\* What the buffers hold that words are scanned into.
NoWord == ""

\* What sscanf stores for n times %s: a missing word leaves what was there.
Scanned(parts, n, before) ==
  [w \in 1 .. n |-> IF w <= Len(parts) THEN parts[w]
                    ELSE IF before = <<>> THEN NoWord ELSE before[w]]

\* A word that does not fit into the array it is scanned into.
Overflows(parts, n) ==
  \E w \in 1 .. n : w <= Len(parts) /\ WordLen(parts[w]) >= BufferSize

\* How many words each kind of line has scanned.
Scans(key) ==
  CASE key = "o" -> 6 [] key = "t" -> 2 [] key = "m" -> 4 [] OTHER -> 0

SdpStart ==
  /\ at = "top" /\ j = 1
  /\ session = [v |-> <<>>, o |-> <<>>, s |-> <<>>, t |-> <<>>]
  /\ media = <<>> /\ num = 0 /\ heads = <<>>

SdpInit == lines \in Texts /\ SdpStart

More == j <= Len(lines)

\* A line whose outcome is undefined: a word too long; a seventh word of the
\* origin, for which the format has a %s and the call no argument; a medium
\* beyond the array.  The model stops there and says nothing of what follows.
LineTraps ==
  \/ Overflows(lines[j].parts, Scans(lines[j].key))
  \/ lines[j].key = "o" /\ Len(lines[j].parts) > 6
  \/ lines[j].key = "m" /\ num >= MaxMedia

\* The text is empty, so that strtok has no first line and strchr gets NULL; or
\* the line traps.
SdpTraps ==
  /\ at = "top"
  /\ (IF lines = <<>> THEN TRUE ELSE More /\ LineTraps)
  /\ at' = "trap"
  /\ UNCHANGED <<lines, j, session, media, num, heads>>

\* "v", "o", "s", "t", and any other line, attributes outside a medium included,
\* which is passed over.
ReadSession ==
  /\ at = "top" /\ More /\ ~LineTraps
  /\ lines[j].key # "m"
  /\ LET key == lines[j].key
         parts == lines[j].parts
     IN  session' = CASE key \in {"v", "s"} -> [session EXCEPT ![key] = parts]
                      [] key \in {"o", "t"} ->
                           [session EXCEPT
                              ![key] = Scanned(parts, Scans(key), session[key])]
                      [] OTHER -> session
  /\ j' = j + 1
  /\ UNCHANGED <<lines, at, media, num, heads>>

ReadMedium ==
  /\ at = "top" /\ More /\ ~LineTraps
  /\ lines[j].key = "m"
  /\ media' = Append(media, [desc |-> Scanned(lines[j].parts, 4, <<>>),
                             attrs |-> <<>>])
  /\ heads' = Append(heads, j)
  /\ at' = "attrs" /\ j' = j + 1
  /\ UNCHANGED <<lines, session, num>>

AtAttr == More /\ lines[j].key = "a"

\* Key and value are the first two pieces.  Without a colon there is no value,
\* and sdp_insert_attr duplicates NULL.
ReadAttr ==
  /\ at = "attrs" /\ AtAttr
  /\ LET parts == lines[j].parts
     IN  IF Len(parts) < 2
           THEN at' = "trap" /\ UNCHANGED <<j, media>>
           ELSE /\ media' = [media EXCEPT ![num + 1].attrs =
                               Append(@, <<parts[1], parts[2]>>)]
                /\ j' = j + 1
                /\ UNCHANGED at
  /\ UNCHANGED <<lines, session, num, heads>>

\* Mutant: the outer loop goes on to the line after the one the nested loop
\* stopped at.
EndMediumSkips ==
  /\ at = "attrs" /\ ~AtAttr
  /\ num' = num + 1
  /\ at' = "top" /\ j' = j + 1
  /\ UNCHANGED <<lines, session, media, heads>>

\* Mutant: the medium is not counted.
EndMediumUncounted ==
  /\ at = "attrs" /\ ~AtAttr
  /\ at' = "top"
  /\ UNCHANGED <<lines, j, session, media, num, heads>>

\* The nested loop stops at a line that is no attribute, or at the end; the line
\* is the outer loop's next.
EndMedium ==
  /\ at = "attrs" /\ ~AtAttr
  /\ num' = num + 1
  /\ at' = "top"
  /\ UNCHANGED <<lines, j, session, media, heads>>

SdpFinish ==
  /\ at = "top" /\ lines # <<>> /\ ~More
  /\ at' = "done"
  /\ UNCHANGED <<lines, j, session, media, num, heads>>

SdpNext ==
  SdpTraps \/ ReadSession \/ ReadMedium \/ ReadAttr \/ EndMedium \/ SdpFinish

SdpSpec == SdpInit /\ [][SdpNext]_sdpVars

-----------------------------------------------------------------------------
IsMedium(p) == lines[p].key = "m"
IsAttr(p) == p \in 1 .. Len(lines) /\ lines[p].key = "a"

\* The entries stand for the "m" lines passed, in order and with none left out.
HeadsInOrder ==
  /\ Len(heads) = Len(media)
  /\ \A e \in 1 .. Len(heads) :
       heads[e] \in 1 .. Len(lines) /\ heads[e] < j /\ IsMedium(heads[e])
  /\ \A e, f \in 1 .. Len(heads) : e < f => heads[e] < heads[f]
  /\ \A p \in 1 .. Len(lines) :
       p < j /\ IsMedium(p) => \E e \in 1 .. Len(heads) : heads[e] = p

\* An entry has the words of its line and the attributes of the lines after it,
\* and when it is complete no attribute is left behind these.
EntryMatches(e) ==
  LET m == media[e]
      n == Len(m.attrs)
  IN  /\ m.desc = Scanned(lines[heads[e]].parts, 4, <<>>)
      /\ \A x \in 1 .. n :
           /\ IsAttr(heads[e] + x)
           /\ m.attrs[x] = <<lines[heads[e] + x].parts[1],
                             lines[heads[e] + x].parts[2]>>
      /\ e <= num => ~IsAttr(heads[e] + n + 1)

\* Each entry of sdp->media belongs to one "m" line, in order and with none left
\* out, and has the attributes of exactly the "a" lines that directly follow it,
\* in order, wherever the two loops hand a line to each other; media_num counts
\* the entries that are complete.
MediaMatch ==
  /\ HeadsInOrder
  /\ \A e \in 1 .. Len(media) : EntryMatches(e)
  /\ at \in {"top", "done"} => num = Len(media)

\* A text the parser cannot take, told from the text alone: it is empty, a word
\* is too long, an origin has a seventh word, an attribute of a medium has no
\* colon, or there are more media than MaxMedia.  (Attributes that do not follow
\* their medium without another line between are never looked at.)
OfAMedium(p) ==
  IsAttr(p) /\ \E h \in 1 .. p - 1 : IsMedium(h) /\ \A q \in h + 1 .. p : IsAttr(q)

Unreadable ==
  \/ lines = <<>>
  \/ \E p \in 1 .. Len(lines) :
       \/ Overflows(lines[p].parts, Scans(lines[p].key))
       \/ lines[p].key = "o" /\ Len(lines[p].parts) > 6
       \/ OfAMedium(p) /\ Len(lines[p].parts) < 2
  \/ Cardinality({p \in 1 .. Len(lines) : IsMedium(p)}) > MaxMedia

\* The parser ends in undefined behaviour on the texts it cannot take and on no
\* others, and never writes an entry beyond the array.
TrapsForAReason ==
  /\ Len(media) <= MaxMedia
  /\ at = "trap" => Unreadable
  /\ at = "done" => ~Unreadable
=============================================================================
