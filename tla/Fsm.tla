-------------------------------- MODULE Fsm --------------------------------
(***************************************************************************)
(* Hard links of one package, from the disk into a payload and back to a   *)
(* disk: lib/fsm.c with the goals IOSM_PKGBUILD and IOSM_PKGINSTALL.       *)
(*                                                                         *)
(* rpmbuild (goal "build") or a transaction that repackages what it erases *)
(* (goal "save") writes the files one by one; the names of one inode are   *)
(* collected in a hardLink_s and written together, the content with the    *)
(* last.  The install reads the payload in its order, puts off the names   *)
(* of a set until their content comes, extracts it under the temporary     *)
(* name of one of them, links the others to it, and renames them all.      *)
(*                                                                         *)
(* Files are regular; what is at their paths before the install is Old.    *)
(* Any step named in Faults may fail.  The payload is cpio.                *)
(***************************************************************************)
EXTENDS Integers, Sequences, FiniteSets, FiniteSetsExt

CONSTANTS NFiles,     \* the files of the package, in the order of its header
          Goals,      \* how the payload is made: "build", "save"
          Actions,    \* what may be decided about a file at install
          Faults      \* what may fail: "header", "extract", "link", "rename"

Files == 1 .. NFiles

ASSUME FsmAssumption ==
    /\ NFiles \in Nat \ {0}
    /\ Goals \subseteq {"build", "save"}
    /\ Actions \subseteq {"create", "skip", "backup", "altname"} /\ Actions # {}
    /\ Faults \subseteq {"header", "extract", "link", "rename"}

VARIABLES goal,       \* of the payload
          ino,        \* [Files -> inode]: an inode is the first file that has it
          gone,       \* files the user has removed
          more,       \* inodes with a name outside of the package
          empty,      \* inodes without content
          act,        \* fi->actions at install
          payload,    \* what was written, in order
          pc, ix,     \* the stage; fsm->ix
          links,      \* fsm->links: sets of hard links, the newest first
          i,          \* the loop over the names of a set
          pos,        \* the next header of the payload
          tmp,        \* [Files -> what is under the temporary name]
          disk,       \* [Files -> what is at the path]
          saved,      \* [Files -> what is under .rpmorig or .rpmsave]
          new,        \* [Files -> what is under .rpmnew]
          ec, blamed, \* an error to return; *fsm->failedFile is set
          result

given == <<goal, ino, gone, more, empty, act>>
system == <<tmp, disk, saved, new>>
vars == <<given, payload, pc, ix, links, i, pos, system, ec, blamed, result>>

None == 0       \* no file there; other numbers are of payload entries
Old == -1
NoFile == 0
Free == 0       \* filex: nothing was recorded in this place

-----------------------------------------------------------------------------
(* The disk a payload is made from.                                         *)

NLink(n) == Cardinality({f \in Files \ gone : ino[f] = n}) + (IF n \in more THEN 1 ELSE 0)

Init ==
    /\ goal \in Goals
    /\ ino \in [Files -> Files] /\ \A f \in Files : ino[f] <= f /\ ino[ino[f]] = ino[f]
    /\ gone \in IF goal = "save" THEN {{}} \cup {{f} : f \in Files} ELSE {{}}
    /\ \A f \in gone, g \in Files : ino[g] = f <=> g = f
    /\ more \in {{}} \cup {{ino[f]} : f \in Files \ gone}
    /\ empty \in {{}} \cup {{ino[f]} : f \in Files \ gone}
    /\ act \in [Files -> Actions]
    /\ payload = <<>> /\ pc = "build" /\ ix = 1 /\ links = <<>> /\ i = 0 /\ pos = 1
    /\ tmp = [f \in Files |-> None] /\ disk = [f \in Files |-> Old]
    /\ saved = [f \in Files |-> None] /\ new = [f \in Files |-> None]
    /\ ec = FALSE /\ blamed = FALSE /\ result = "none"

-----------------------------------------------------------------------------
(* Sets of hard links: saveHardLink.                                        *)

NewSet(n, nlink, left) ==
    [ino |-> n, nlink |-> nlink, left |-> left, index |-> -1,
     filex |-> [k \in 0 .. nlink - 1 |-> Free]]

Known(n) == \E k \in DOMAIN links : links[k].ino = n
SetOf(n) == CHOOSE k \in DOMAIN links : links[k].ino = n

\* Mutant: a set is added for every name.
WithSetAlways(n, nlink, left) == <<NewSet(n, nlink, left)>> \o links

\* fsm->li: the set is found, or a new one is put first.
WithSet(n, nlink, left) ==
    IF Known(n) THEN links ELSE <<NewSet(n, nlink, left)>> \o links

\* A name is recorded from the end of the set, which counts down.
Counted(s, f) == [s EXCEPT !.left = @ - 1, !.filex[s.left - 1] = f]

\* A name is recorded from the start of the set, which counts up.
Arrived(s, f) == [s EXCEPT !.left = @ + 1, !.filex[s.left] = f]

Members(s) == {k \in 0 .. s.nlink - 1 : s.filex[k] # Free}

Skipped(f) == act[f] = "skip"

\* Mutant: the last name, whatever is to be done with it.
ChosenAny(s) == Max({-1} \cup {k \in Members(s) : k < s.left})

\* The last name recorded that is not skipped, or -1.
Chosen(s) == Max({-1} \cup {k \in Members(s) : k < s.left /\ ~Skipped(s.filex[k])})

-----------------------------------------------------------------------------
(* IOSM_PKGBUILD.                                                           *)

\* A header of the payload: its file, inode (0: the file is gone and its header
\* has no type), st_nlink, and whether the content follows.
Entry(f, n, nlink, full) == [file |-> f, ino |-> n, nlink |-> nlink, full |-> full]

Content(n) == n \notin empty

Descending(S) ==
    CHOOSE order \in [1 .. Cardinality(S) -> S] :
        \A k, l \in DOMAIN order : k < l => order[k] > order[l]

\* writeLinkedFile: from the end of the set, the content after the last header.
WriteLinked(s, nlink) ==
    LET order == Descending(Members(s))
    IN  [k \in DOMAIN order |->
            Entry(s.filex[order[k]], s.ino, nlink, order[k] = 0 /\ Content(s.ino))]

\* IOSM_INIT, PROCESS and FINI of one file.  A complete set is written at once
\* when all of its names are wanted (IOSM_ALL_HARDLINKS), and at the end if not.
BuildFile ==
    /\ pc = "build" /\ ix <= NFiles /\ ix' = ix + 1
    /\ LET f == ix
           n == ino[ix]
           known == WithSet(n, NLink(n), NLink(n))
           k == IF Known(n) THEN SetOf(n) ELSE 1
           s == Counted(known[k], f)
       IN  \/ /\ f \in gone
              /\ payload' = Append(payload, Entry(f, NoFile, 0, FALSE))
              /\ UNCHANGED links
           \/ /\ f \notin gone /\ NLink(n) = 1
              /\ payload' = Append(payload, Entry(f, n, 1, Content(n)))
              /\ UNCHANGED links
           \/ /\ f \notin gone /\ NLink(n) > 1
              /\ IF goal = "save" /\ s.left = 0
                 THEN /\ payload' = payload \o WriteLinked(s, s.nlink)
                      /\ links' = SubSeq(known, 1, k - 1) \o SubSeq(known, k + 1, Len(known))
                 ELSE /\ links' = [known EXCEPT ![k] = s]
                      /\ UNCHANGED payload
    /\ UNCHANGED <<given, pc, i, pos, system, ec, blamed, result>>

\* Mutant: the names stay where they are, the content goes with none of them.
RenumberedNot(s) == s

\* The names a set has are moved to its start, as the content goes with place 0,
\* and counted again.
Renumbered(s) ==
    LET j == Min(Members(s))
    IN  [s EXCEPT !.filex = [@ EXCEPT ![j] = Free, ![0] = s.filex[j]]]

\* At the end rpmbuild writes the sets that are left, whatever they lack.
FlushSet ==
    /\ pc = "build" /\ ix > NFiles /\ goal = "build" /\ links # <<>>
    /\ LET s == Renumbered(Head(links))
       IN  payload' = payload \o WriteLinked(s, Cardinality(Members(s)))
    /\ links' = Tail(links)
    /\ UNCHANGED <<given, pc, ix, i, pos, system, ec, blamed, result>>

\* The trailer, and IOSM_DESTROY: sets that are left are an error with
\* IOSM_ALL_HARDLINKS, which PSM_PKGSAVE does not look at.
Written ==
    /\ pc = "build" /\ ix > NFiles /\ (goal = "build" => links = <<>>)
    /\ links' = <<>> /\ pc' = "next"
    /\ UNCHANGED <<given, payload, ix, i, pos, system, ec, blamed, result>>

-----------------------------------------------------------------------------
(* IOSM_PKGINSTALL.                                                         *)

Finish(r) ==
    /\ pc' = "done" /\ result' = r
    /\ UNCHANGED <<given, payload, ix, links, i, pos>>

\* IOSM_NEXT: the trailer, or a header that cannot be read.
EndOfPayload ==
    /\ pc = "next" /\ pos > Len(payload)
    /\ Finish("ok") /\ UNCHANGED <<system, ec, blamed>>

BadHeader ==
    /\ pc = "next" /\ "header" \in Faults
    /\ Finish("header") /\ UNCHANGED <<system, ec, blamed>>

\* IOSM_INIT, and IOSM_EAT of IOSM_PROCESS when the file is put off.  Of a set,
\* the last name that is not skipped is extracted once the content is there, or
\* every name.
ReadHeader ==
    /\ pc = "next" /\ pos <= Len(payload)
    /\ LET e == payload[pos]
           known == WithSet(e.ino, e.nlink, 0)
           k == IF Known(e.ino) THEN SetOf(e.ino) ELSE 1
           s == Arrived(known[k], e.file)
           complete == e.full \/ s.left = e.nlink
           j == IF complete THEN Chosen(s) ELSE -1
           single == e.nlink <= 1
           postpone == IF single THEN Skipped(e.file) ELSE j = -1
       IN  /\ links' = IF single THEN links ELSE [known EXCEPT ![k] = [s EXCEPT !.index = j]]
           /\ IF postpone
              THEN pos' = pos + 1 /\ UNCHANGED <<pc, ix>>
              ELSE /\ ix' = IF single THEN e.file ELSE s.filex[j]
                   /\ pc' = "process" /\ UNCHANGED pos
    /\ UNCHANGED <<given, payload, i, system, ec, blamed, result>>

Linked == payload[pos].nlink > 1
Set == SetOf(payload[pos].ino)

\* Of a file whose header has no type nothing is extracted: repackaged payloads
\* may be missing files.
ProcessGone ==
    /\ pc = "process" /\ payload[pos].ino = NoFile
    /\ pc' = "commit" /\ i' = 0 /\ ec' = FALSE
    /\ UNCHANGED <<given, payload, ix, links, pos, system, blamed, result>>

Extract ==
    /\ pc = "process" /\ payload[pos].ino # NoFile
    /\ tmp' = [tmp EXCEPT ![ix] = pos]
    /\ pc' = IF Linked THEN "link" ELSE "commit"
    /\ i' = 0 /\ ec' = FALSE
    /\ UNCHANGED <<given, payload, ix, links, pos, disk, saved, new, blamed, result>>

\* extractRegular fails, and IOSM_UNDO removes what it wrote.
ExtractFails ==
    /\ pc = "process" /\ payload[pos].ino # NoFile /\ "extract" \in Faults
    /\ tmp' = [tmp EXCEPT ![ix] = None] /\ blamed' = TRUE
    /\ Finish("extract") /\ UNCHANGED <<disk, saved, new, ec>>

Wanted(s, k) == k \in Members(s) /\ ~Skipped(s.filex[k])

\* One name of fsmMakeLinks.  Only the first failure of a package is returned,
\* and the count of links left goes down in either case.
MakeLink ==
    /\ pc = "link" /\ i < links[Set].nlink /\ i' = i + 1
    /\ LET s == links[Set]
       IN  IF Wanted(s, i) /\ i # s.index
           THEN /\ links' = [links EXCEPT ![Set].left = @ - 1]
                /\ \/ /\ tmp' = [tmp EXCEPT ![s.filex[i]] = tmp[s.filex[s.index]]]
                      /\ UNCHANGED <<ec, blamed>>
                   \/ /\ "link" \in Faults
                      /\ ec' = (ec \/ ~blamed) /\ blamed' = TRUE /\ UNCHANGED tmp
           ELSE UNCHANGED <<links, tmp, ec, blamed>>
    /\ UNCHANGED <<given, payload, pc, ix, pos, disk, saved, new, result>>

LinksMade ==
    /\ pc = "link" /\ i = links[Set].nlink /\ ~ec
    /\ pc' = "commit" /\ i' = 0
    /\ UNCHANGED <<given, payload, ix, links, pos, system, ec, blamed, result>>

\* IOSM_UNDO removes the name that was extracted.
LinkFailed ==
    /\ pc = "link" /\ i = links[Set].nlink /\ ec
    /\ tmp' = [tmp EXCEPT ![ix] = None]
    /\ Finish("link") /\ UNCHANGED <<disk, saved, new, ec, blamed>>

\* IOSM_COMMIT: what is at the path is renamed if it is to be kept and the header
\* is that of a regular file (fsm->exists is about the temporary name, and FALSE
\* here), then the temporary name; what cannot be renamed is removed.  Only the
\* second rename decides what is returned.
Commit(f) ==
    \E keepFails, failing \in {FALSE, "rename" \in Faults} :
        LET moved == act[f] = "backup" /\ payload[pos].ino # NoFile /\ ~keepFails
            left == IF moved THEN None ELSE disk[f]
            failed == failing \/ tmp[f] = None
            aside == act[f] = "altname"
        IN  /\ saved' = [saved EXCEPT ![f] = IF moved THEN disk[f] ELSE @]
            /\ disk' = [disk EXCEPT ![f] = IF failed \/ aside THEN left ELSE tmp[f]]
            /\ new' = [new EXCEPT ![f] = IF ~failed /\ aside THEN tmp[f] ELSE @]
            /\ tmp' = [tmp EXCEPT ![f] = None]
            /\ ec' = failed /\ blamed' = (blamed \/ failed)

\* IOSM_FINI of a file, or of every name of a set (fsmCommitLinks), in which a
\* name overwrites what the one before returned.
CommitSingle ==
    /\ pc = "commit" /\ ~Linked /\ i = 0 /\ i' = 1
    /\ Commit(ix)
    /\ UNCHANGED <<given, payload, pc, ix, links, pos, result>>

CommitName ==
    /\ pc = "commit" /\ Linked /\ i < links[Set].nlink /\ i' = i + 1
    /\ links' = [links EXCEPT ![Set].filex[i] = Free]
    /\ LET s == links[Set]
       IN  \/ Wanted(s, i) /\ Commit(s.filex[i])
           \/ /\ i \in Members(s) /\ Skipped(s.filex[i])
              /\ ec' = FALSE /\ UNCHANGED <<system, blamed>>
           \/ i \notin Members(s) /\ UNCHANGED <<system, ec, blamed>>
    /\ UNCHANGED <<given, payload, pc, ix, pos, result>>

Count == IF Linked THEN links[Set].nlink ELSE 1

Committed ==
    /\ pc = "commit" /\ i = Count /\ ~ec
    /\ pos' = pos + 1 /\ pc' = "next"
    /\ UNCHANGED <<given, payload, ix, links, i, system, ec, blamed, result>>

CommitFailed ==
    /\ pc = "commit" /\ i = Count /\ ec
    /\ Finish("rename") /\ UNCHANGED <<system, ec, blamed>>

-----------------------------------------------------------------------------
Next ==
    \/ BuildFile \/ FlushSet \/ Written
    \/ EndOfPayload \/ BadHeader \/ ReadHeader
    \/ ProcessGone \/ Extract \/ ExtractFails
    \/ MakeLink \/ LinksMade \/ LinkFailed
    \/ CommitSingle \/ CommitName \/ Committed \/ CommitFailed

Spec == Init /\ [][Next]_vars

-----------------------------------------------------------------------------
(* Properties.                                                              *)

\* Every set is what the headers said: its names are files of its inode, each
\* recorded once, and while a payload is made its count is that of free places.
TypeOK ==
    /\ pc \in {"build", "next", "process", "link", "commit", "done"}
    /\ ix \in 1 .. NFiles + 1 /\ pos \in 1 .. Len(payload) + 1 /\ i \in 0 .. NFiles + 1
    /\ \A f \in Files : {tmp[f], disk[f], saved[f], new[f]} \subseteq Old .. Len(payload)
    /\ \A k, l \in DOMAIN links : links[k].ino = links[l].ino => k = l
    /\ \A k \in DOMAIN links : LET s == links[k] IN
        /\ s.left \in 0 .. s.nlink
        /\ \A p, q \in Members(s) :
               /\ ino[s.filex[p]] = s.ino
               /\ s.filex[p] = s.filex[q] => p = q
        /\ pc = "build" => Members(s) = s.left .. s.nlink - 1

\* Nobody can make the set complete again: some of its names are not in the package.
Lost(f) == goal = "save" /\ f \notin gone /\ ino[f] \in more

\* What the build writes is what the install relies on: every file once, the
\* names of a set together, counted as many as they are, and the content with
\* the last of them.
ArchiveWhole ==
    pc # "build" =>
        /\ \A f \in Files : Cardinality({p \in DOMAIN payload : payload[p].file = f})
                                = IF Lost(f) THEN 0 ELSE 1
        /\ \A p \in DOMAIN payload : LET e == payload[p] IN
            e.ino # NoFile =>
                LET same == {q \in DOMAIN payload : payload[q].ino = e.ino}
                IN  /\ e.ino = ino[e.file] /\ e.nlink = Cardinality(same)
                    /\ same = Min(same) .. Max(same)
                    /\ e.full = (p = Max(same) /\ Content(e.ino))

\* What a file is after the install, under the name it was to have.
Put(f) == IF act[f] = "altname" THEN new[f] ELSE disk[f]

Installed(f) == Put(f) \notin {None, Old}

\* A file has the content of its inode, and one with another name of it.
Right(f) ==
    /\ payload[Put(f)].ino = ino[f] /\ payload[Put(f)].full = Content(ino[f])
    /\ \A g \in Files : Installed(g) => (Put(f) = Put(g)) = (ino[f] = ino[g])

Names(n) == {f \in Files : ino[f] = n /\ ~Skipped(f) /\ f \notin gone}

\* "Commit hard linked file set atomically": when the install returns, all names
\* of an inode were replaced or none.
SetsWhole ==
    pc = "done" => \A n \in {ino[f] : f \in Files} :
        (\E f \in Names(n) : Installed(f)) => \A f \in Names(n) : Installed(f)

\* "@return 0 on success" (fsmCommitLinks): an install that returns 0 has put
\* every file the payload has and that is not to be skipped.
SucceededWhole ==
    result = "ok" => \A n \in {ino[f] : f \in Files}, f \in Files :
        f \in Names(n) => Installed(f) \/ Lost(f)

\* Files are installed right, with every name; those to be skipped are left as
\* they were, those to be kept are kept; nothing temporary is left, but of a set
\* one name of which could not be linked.
LinksInstalled ==
    /\ SetsWhole /\ SucceededWhole
    /\ pc = "done" => \A f \in Files :
        /\ Installed(f) => ~Skipped(f) /\ Right(f)
        /\ Skipped(f) \/ act[f] = "altname" => disk[f] = Old
        /\ act[f] = "backup" => (Installed(f) => saved[f] = Old) /\ Old \in {disk[f], saved[f]}
        /\ tmp[f] # None => result = "link" /\ f \in Names(ino[ix])

-----------------------------------------------------------------------------
(* The inductive invariant.  First the types, and what is given.            *)
Places(s) == 0 .. s.nlink - 1

HardLinks ==
    {s \in [ino : Files, nlink : 0 .. NFiles + 1, left : Int, index : Int,
            filex : UNION {[0 .. n - 1 -> 0 .. NFiles] : n \in 0 .. NFiles + 1}] :
        s.filex \in [Places(s) -> 0 .. NFiles]}

Shapes ==
    /\ goal \in Goals /\ gone \subseteq Files /\ act \in [Files -> Actions]
    /\ ino \in [Files -> Files] /\ \A f \in Files : ino[ino[f]] = ino[f]
    /\ \A f \in gone, g \in Files : ino[g] = f <=> g = f
    /\ goal = "build" => gone = {}
    /\ payload \in Seq([file : Files, ino : 0 .. NFiles, nlink : Nat, full : BOOLEAN])
    /\ links \in Seq(HardLinks)
    /\ {tmp, disk, saved, new} \subseteq [Files -> Int]
    /\ ec \in BOOLEAN /\ blamed \in BOOLEAN
    /\ result \in {"none", "ok", "header", "extract", "link", "rename"}
    /\ result = "none" <=> pc # "done"

(* While the payload is made: a set has the names of its inode that were    *)
(* seen, from its end, and the payload what was seen and is in no set.      *)
AllNames(n) == {f \in Files \ gone : ino[f] = n}

Seen(n) == {f \in AllNames(n) : f < ix}

Recorded(s) == {s.filex[k] : k \in Members(s)}

InSet(f) == f \notin gone /\ \E n \in Files : n = ino[f] /\ NLink(n) > 1 /\ Known(n)

BuildSets ==
    pc = "build" =>
        /\ pos = 1
        /\ \A k \in DOMAIN links, n \in Files : LET s == links[k] IN s.ino = n =>
              /\ s.nlink = NLink(n) /\ s.nlink > 1
              /\ s.left = s.nlink - Cardinality(Seen(n)) /\ s.left < s.nlink
              /\ goal = "save" => s.left > 0
              /\ Recorded(s) = Seen(n)

\* The headers of an inode are together, with the content at the last.
Same(n) == {p \in DOMAIN payload : payload[p].ino = n}

Block(n) ==
    \E a, b \in DOMAIN payload :
        /\ a <= b /\ Same(n) = a .. b
        /\ \A p \in a .. b :
              /\ payload[p].nlink = b - a + 1
              /\ payload[p].full <=> p = b /\ Content(n)

Archived == {payload[p].file : p \in DOMAIN payload}

Entries ==
    /\ \A p \in DOMAIN payload : LET e == payload[p] IN
          /\ e.file \in Files
          /\ IF e.file \in gone THEN e.ino = NoFile /\ e.nlink = 0 /\ ~e.full
             ELSE e.ino = ino[e.file]
          /\ \A q \in DOMAIN payload : e.file = payload[q].file => p = q
    /\ \A n \in Files : Same(n) # {} => Block(n) /\ AllNames(n) \subseteq Archived

PayloadKnown ==
    /\ Entries
    /\ pc = "build" => Archived = {f \in 1 .. ix - 1 : ~InSet(f)}
    /\ pc # "build" => Archived = {f \in Files : ~Lost(f)}
    /\ goal = "save" => \A f \in Archived \ gone : ino[f] \notin more

\* The header that was read last; at an end of the payload there is none.
Current == IF pc = "next" \/ result \in {"ok", "header"} THEN pos - 1 ELSE pos

First(n) == Min(Same(n))
Last(n) == Max(Same(n))

\* At install a set has the names that came so far, and is left when its last
\* one has been dealt with.
InstallSets ==
    pc # "build" =>
        /\ \A n \in Files :
              Known(n) <=> Same(n) # {} /\ First(n) < Last(n) /\ First(n) <= Current
        /\ \A k \in DOMAIN links, n \in Files : LET s == links[k] IN s.ino = n =>
              /\ s.nlink = Last(n) - First(n) + 1
              /\ \A q \in Members(s) : s.filex[q] = payload[First(n) + q].file
              /\ Current < Last(n) =>
                     /\ s.left = Current - First(n) + 1
                     /\ Members(s) = 0 .. s.left - 1

\* The set of the file that is installed.
AtSet ==
    pc \in {"process", "link", "commit"} =>
        /\ pos <= Len(payload) /\ ix \in Files /\ ~Skipped(ix)
        /\ ~Linked => ix = payload[pos].file /\ pc # "link"
        /\ Linked => \E k \in DOMAIN links, n \in Files : LET s == links[k] IN
              /\ s.ino = n /\ payload[pos].ino = n /\ pos = Last(n)
              /\ s.index \in Places(s) /\ payload[First(n) + s.index].file = ix
              /\ pc \in {"process", "link"} => Members(s) = Places(s)
              /\ pc = "process" => s.left = s.nlink
              /\ pc = "link" => i <= s.nlink /\ s.left >= s.nlink - i + IF i > s.index THEN 1 ELSE 0
              /\ pc = "commit" => i <= s.nlink /\ Members(s) = i .. s.nlink - 1

\* What a file is like before it is installed, when it is extracted, and after.
Fresh(f) == tmp[f] = None /\ disk[f] = Old /\ saved[f] = None /\ new[f] = None

Ready(f, q) == tmp[f] = q /\ disk[f] = Old /\ saved[f] = None /\ new[f] = None

Placed(f, q) ==
    /\ tmp[f] = None
    /\ disk[f] = IF act[f] = "altname" THEN Old ELSE q
    /\ new[f] = IF act[f] = "altname" THEN q ELSE None
    /\ saved[f] = IF act[f] = "backup" THEN Old ELSE None

End(p) == IF payload[p].ino = NoFile THEN p ELSE Last(payload[p].ino)

\* Its place in its set.
Place(p) == p - First(payload[p].ino)

\* One file of the set that is installed.  Nothing is done to the path of a file
\* that was gone when its package was repackaged.
AtHand(p) == LET f == payload[p].file IN
    /\ pc \in {"next", "process"} \/ result \in {"ok", "header", "extract"} => Fresh(f)
    /\ pc = "link" => IF f = ix THEN Ready(f, pos)
                      ELSE \/ Fresh(f) /\ (Place(p) < i => ec)
                           \/ Ready(f, pos) /\ Place(p) < i
    /\ result = "link" => Fresh(f) \/ (f # ix /\ Ready(f, pos))
    /\ pc = "commit" => IF payload[p].ino = NoFile THEN Fresh(f)
                        ELSE IF Place(p) < i THEN Placed(f, pos) ELSE Ready(f, pos)
    /\ result = "rename" => Fresh(f)

FilesKnown ==
    /\ \A f \in Files : pc = "build" \/ f \notin Archived => Fresh(f)
    /\ pc # "build" => \A p \in DOMAIN payload : LET f == payload[p].file IN
         /\ Skipped(f) \/ End(p) > pos => Fresh(f)
         /\ ~Skipped(f) /\ End(p) < pos => payload[p].ino # NoFile /\ Placed(f, End(p))
         /\ ~Skipped(f) /\ End(p) = pos => AtHand(p)

\* Which errors there are.
ErrorsKnown ==
    /\ pc \in {"build", "next", "process"} => ~blamed
    /\ pc = "link" => (blamed <=> ec)
    /\ pc = "commit" =>
          IF payload[pos].ino = NoFile THEN i \in {0, 1} /\ (ec <=> i = 1) ELSE ~blamed /\ ~ec /\ i <= Count
    /\ result = "ok" => pos > Len(payload)
    /\ result = "link" => ix \in Files /\ pos <= Len(payload) /\ ino[ix] = payload[pos].ino
    /\ result = "rename" => pos <= Len(payload) /\ payload[pos].ino = NoFile

FsmInv ==
    /\ TypeOK /\ Shapes /\ BuildSets /\ PayloadKnown /\ InstallSets /\ AtSet
    /\ "rename" \notin Faults => FilesKnown /\ ErrorsKnown

-----------------------------------------------------------------------------
\* "Repackaged payloads may be missing files": a payload that was written is
\* installed if nothing fails.
MissingInstalled == result = "rename" => "rename" \in Faults

\* "fail if hardlinks are missing" (IOSM_ALL_HARDLINKS): a payload that is made
\* has all of its files.
NoneMissing == pc # "build" => \A f \in Files : ~Lost(f)

=============================================================================
