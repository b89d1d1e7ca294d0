-------------------------- MODULE CopyActionProofs --------------------------
(***************************************************************************)
(* Proofs about CopyAction: what a call of bocloud_copy does to the texts  *)
(* of the target, which mode a module is given, what becomes of the        *)
(* temporary file of content, which files a call may write, and that what  *)
(* it says of itself is true.                                              *)
(***************************************************************************)
EXTENDS CopyAction, SequenceTheorems, WellFoundedInduction, TLAPS

(***************************************************************************)
(* What the operations do to the files of a target.                        *)
(***************************************************************************)

(* No file comes or goes from the map, and no link is made. *)
NoNewLink(fs, gs) ==
  /\ IsFiles(gs) /\ DOMAIN gs = DOMAIN fs
  /\ \A path \in DOMAIN fs : gs[path].kind = "link" => fs[path].kind = "link"

(* Besides, a text is kept, unless it was a link. *)
TextsKept(fs, gs) ==
  /\ NoNewLink(fs, gs)
  /\ \A path \in DOMAIN fs : fs[path].kind = "link" \/ gs[path].text = fs[path].text

(* Or it is the given one. *)
TextsKeptOr(fs, gs, text) ==
  /\ NoNewLink(fs, gs)
  /\ \A path \in DOMAIN fs :
       fs[path].kind = "link" \/ gs[path].text = fs[path].text \/ gs[path].text = text

(* One change after the other. *)
LEMMA TextsKeptTwice ==
  ASSUME NEW fs, NEW gs, NEW hs, NEW text, TextsKept(fs, gs), TextsKeptOr(gs, hs, text)
  PROVE  TextsKeptOr(fs, hs, text)
  BY DEF TextsKept, TextsKeptOr, NoNewLink

LEMMA TextsKeptTransitive ==
  ASSUME NEW fs, NEW gs, NEW hs, TextsKept(fs, gs), TextsKept(gs, hs)
  PROVE  TextsKept(fs, hs)
  BY DEF TextsKept, NoNewLink

LEMMA TextsKeptReflexive ==
  ASSUME NEW fs, IsFiles(fs)
  PROVE  TextsKept(fs, fs)
  BY DEF TextsKept, NoNewLink

LEMMA TextsKeptWeaker ==
  ASSUME NEW fs, NEW gs, NEW text, TextsKept(fs, gs)
  PROVE  TextsKeptOr(fs, gs, text)
  BY DEF TextsKept, TextsKeptOr

(* os.makedirs makes directories of what was not there. *)
LEMMA MakeDirsKeeps ==
  ASSUME NEW fs, NEW path, IsFiles(fs)
  PROVE  TextsKept(fs, MakeDirs(fs, path))
<1>1. \A p \in DOMAIN fs : MakeDirs(fs, path)[p] = fs[p] \/ (fs[p] = Nothing /\ MakeDirs(fs, path)[p] = Directory)
  BY DEF MakeDirs
<1>2. DOMAIN MakeDirs(fs, path) = DOMAIN fs /\ MakeDirs(fs, path) = [p \in DOMAIN fs |-> MakeDirs(fs, path)[p]]
  BY DEF MakeDirs
<1>3. Directory.kind = "dir" /\ Directory.text = "" /\ Nothing.text = ""
      /\ Directory = Entry(Directory.kind, Directory.text, Directory.mode, Directory.to)
  BY DEF Directory, Nothing, Entry
<1> QED BY <1>1, <1>2, <1>3 DEF TextsKept, NoNewLink, IsFiles

(* An entry that becomes a file with a text. *)
LEMMA FileKeeps ==
  ASSUME NEW fs, NEW path, NEW text, NEW mode, IsFiles(fs)
  PROVE  TextsKeptOr(fs, [fs EXCEPT ![path] = File(text, mode)], text)
<1> DEFINE gs == [fs EXCEPT ![path] = File(text, mode)]
<1>1. \A p \in DOMAIN fs : gs[p] = fs[p] \/ gs[p] = File(text, mode)
  OBVIOUS
<1>2. DOMAIN gs = DOMAIN fs /\ gs = [p \in DOMAIN fs |-> gs[p]]
  OBVIOUS
<1>3. LET e == File(text, mode) IN e.kind = "file" /\ e.text = text /\ e = Entry(e.kind, e.text, e.mode, e.to)
  BY DEF File, Entry
<1> QED BY <1>1, <1>2, <1>3 DEF TextsKeptOr, NoNewLink, IsFiles

(* The module replaces a link before it validates. *)
LEMMA UnlinkKeeps ==
  ASSUME NEW fs, NEW path, NEW file, IsFiles(fs)
  PROVE  TextsKept(fs, Unlink(fs, path, file))
<1>1. CASE fs[path].kind = "link"
  <2> DEFINE gs == [fs EXCEPT ![path] = File("", "default")]
  <2>1. \A p \in DOMAIN fs : gs[p] = fs[p] \/ (fs[p].kind = "link" /\ gs[p] = File("", "default"))
    BY <1>1
  <2>2. DOMAIN gs = DOMAIN fs /\ gs = [p \in DOMAIN fs |-> gs[p]]
    OBVIOUS
  <2>3. LET e == File("", "default") IN e.kind = "file" /\ e = Entry(e.kind, e.text, e.mode, e.to)
    BY DEF File, Entry
  <2> QED BY <1>1, <2>1, <2>2, <2>3 DEF TextsKept, NoNewLink, IsFiles, Unlink
<1>2. CASE fs[path].kind # "link"
  BY <1>2, TextsKeptReflexive DEF Unlink
<1> QED BY <1>1, <1>2

(* Setting a mode keeps everything else. *)
LEMMA ModeKeeps ==
  ASSUME NEW fs, NEW path, NEW mode, IsFiles(fs)
  PROVE  TextsKept(fs, [fs EXCEPT ![path].mode = mode])
<1> DEFINE gs == [fs EXCEPT ![path].mode = mode]
<1>1. \A p \in DOMAIN fs :
        /\ fs[p] = Entry(fs[p].kind, fs[p].text, fs[p].mode, fs[p].to)
        /\ gs[p] = fs[p] \/ gs[p] = [fs[p] EXCEPT !.mode = mode]
  BY DEF IsFiles
<1>2. \A p \in DOMAIN fs : LET e == [fs[p] EXCEPT !.mode = mode]
                           IN e = Entry(fs[p].kind, fs[p].text, mode, fs[p].to)
  BY <1>1 DEF Entry
<1>3. \A p \in DOMAIN fs : LET e == Entry(fs[p].kind, fs[p].text, mode, fs[p].to)
                           IN e.kind = fs[p].kind /\ e.text = fs[p].text /\ e = Entry(e.kind, e.text, e.mode, e.to)
  BY DEF Entry
<1>4. DOMAIN gs = DOMAIN fs /\ gs = [p \in DOMAIN fs |-> gs[p]]
  OBVIOUS
<1> HIDE DEF gs
<1>5. \A p \in DOMAIN fs : gs[p] = fs[p] \/ gs[p] = Entry(fs[p].kind, fs[p].text, mode, fs[p].to)
  BY <1>1, <1>2
<1>6. TextsKept(fs, gs)
  BY <1>1, <1>3, <1>4, <1>5 DEF TextsKept, NoNewLink, IsFiles
<1> QED BY <1>6 DEF gs

LEMMA MovedKeeps ==
  ASSUME NEW fs, NEW path, NEW file, NEW mode, IsFiles(fs)
  PROVE  TextsKeptOr(fs, Moved(fs, path, file, mode), file.text)
  BY FileKeeps DEF Moved

(* What a write that fails leaves of the files. *)
LEMMA FailedWritesKeep ==
  ASSUME NEW fs, NEW path, NEW file, IsFiles(fs), NEW gs \in FailedWrites(fs, path, file)
  PROVE  TextsKeptOr(fs, gs, file.text) \/ (args.decompress /\ TextsKeptOr(fs, gs, "torn"))
<1>1. \/ gs = fs
      \/ gs = Moved(fs, path, file, "none")
      \/ args.decompress /\ gs = [fs EXCEPT ![Append(Front(path), file.member)] = File("torn", "default")]
  BY DEF FailedWrites
<1>2. CASE gs = fs
  BY <1>2, TextsKeptReflexive, TextsKeptWeaker
<1>3. CASE gs = Moved(fs, path, file, "none")
  BY <1>3, MovedKeeps
<1>4. CASE args.decompress /\ gs = [fs EXCEPT ![Append(Front(path), file.member)] = File("torn", "default")]
  <2> DEFINE p == Append(Front(path), file.member)
  <2> HIDE DEF p
  <2>1. TextsKeptOr(fs, [fs EXCEPT ![p] = File("torn", "default")], "torn")
    BY FileKeeps
  <2> QED BY <1>4, <2>1 DEF p
<1> QED BY <1>1, <1>2, <1>3, <1>4

(* A module may have written the text it was to write, whether it failed or  *)
(* not, and an archive that was extracted in part leaves a torn file.        *)
LEMMA ModuleKeeps ==
  ASSUME IsFiles(target), NEW file, NEW mode, NEW outcome \in ModuleOutcomes(file, mode)
  PROVE  /\ outcome.failed \in BOOLEAN
         /\ \/ TextsKeptOr(target, outcome.target, file.text)
            \/ args.decompress /\ TextsKeptOr(target, outcome.target, "torn")
<1> DEFINE joined == IF slash /\ ~args.remote_src THEN dest \o file.rel ELSE dest
           made == IF slash /\ ~args.remote_src THEN MakeDirs(target, joined) ELSE target
           followed == IF args.follow THEN Real(made, joined) ELSE joined
           at == IF IsDir(made, followed) THEN followed \o file.rel ELSE followed
           unlinked == Unlink(made, at, file)
           moved == Moved(unlinked, at, file, mode)
           with_mode == IF args.decompress THEN made ELSE [made EXCEPT ![at].mode = ModeAfter(made, at, mode)]
           failed == FailedWrites(unlinked, at, file)
<1>0. PICK changed_mode \in BOOLEAN : changed_mode = (with_mode # made)
  OBVIOUS
<1>1. \/ outcome = Outcome(TRUE, FALSE, target)
      \/ outcome = Outcome(TRUE, FALSE, made)
      \/ outcome = Outcome(FALSE, FALSE, made)
      \/ outcome = Outcome(FALSE, TRUE, made)
      \/ \E fs \in failed : outcome = Outcome(TRUE, FALSE, fs)
      \/ outcome = Outcome(FALSE, TRUE, moved)
      \/ outcome = Outcome(FALSE, changed_mode, with_mode)
  BY <1>0 DEF ModuleOutcomes
<1>2. TextsKept(target, made)
  BY MakeDirsKeeps, TextsKeptReflexive
<1>3. IsFiles(made)
  BY <1>2 DEF TextsKept, NoNewLink
<1>4. TextsKept(made, unlinked)
  <2> HIDE DEF made, at
  <2> QED BY <1>3, UnlinkKeeps
<1>5. TextsKept(made, with_mode)
  <2> HIDE DEF made, at
  <2> QED BY <1>3, ModeKeeps, TextsKeptReflexive
<1>6. /\ TextsKeptOr(unlinked, moved, file.text)
      /\ \A fs \in failed : \/ TextsKeptOr(unlinked, fs, file.text)
                            \/ args.decompress /\ TextsKeptOr(unlinked, fs, "torn")
  <2>1. IsFiles(unlinked)
    BY <1>4 DEF TextsKept, NoNewLink
  <2> HIDE DEF unlinked, at
  <2>2. TextsKeptOr(unlinked, moved, file.text)
    BY <2>1, MovedKeeps
  <2>3. \A fs \in failed : \/ TextsKeptOr(unlinked, fs, file.text)
                           \/ args.decompress /\ TextsKeptOr(unlinked, fs, "torn")
    BY <2>1, FailedWritesKeep
  <2> QED BY <2>2, <2>3
<1> HIDE DEF made, unlinked, moved, with_mode, failed
<1>7. TextsKept(target, unlinked)
  BY <1>2, <1>4, TextsKeptTransitive
<1>8. TextsKept(target, with_mode)
  BY <1>2, <1>5, TextsKeptTransitive
<1>9. TextsKeptOr(target, moved, file.text)
  BY <1>7, <1>6, TextsKeptTwice
<1>10. /\ TextsKeptOr(target, target, file.text)
       /\ TextsKeptOr(target, made, file.text)
       /\ TextsKeptOr(target, with_mode, file.text)
  BY <1>2, <1>8, TextsKeptWeaker, TextsKeptReflexive
<1>11. ASSUME NEW fs \in failed
       PROVE  TextsKeptOr(target, fs, file.text) \/ (args.decompress /\ TextsKeptOr(target, fs, "torn"))
  BY <1>7, <1>6, TextsKeptTwice
<1>12. /\ outcome.failed \in BOOLEAN
       /\ outcome.target \in {target, made, moved, with_mode} \/ outcome.target \in failed
  <2>1. CASE outcome = Outcome(TRUE, FALSE, target) BY <2>1 DEF Outcome
  <2>2. CASE outcome = Outcome(TRUE, FALSE, made) BY <2>2 DEF Outcome
  <2>3. CASE outcome = Outcome(FALSE, FALSE, made) BY <2>3 DEF Outcome
  <2>4. CASE outcome = Outcome(FALSE, TRUE, made) BY <2>4 DEF Outcome
  <2>5. CASE \E fs \in failed : outcome = Outcome(TRUE, FALSE, fs) BY <2>5 DEF Outcome
  <2>6. CASE outcome = Outcome(FALSE, TRUE, moved) BY <2>6 DEF Outcome
  <2>7. CASE outcome = Outcome(FALSE, changed_mode, with_mode) BY <2>7 DEF Outcome
  <2> QED BY <1>1, <2>1, <2>2, <2>3, <2>4, <2>5, <2>6, <2>7
<1> QED BY <1>9, <1>10, <1>11, <1>12

(* The file module writes no text. *)
LEMMA FileModuleKeeps ==
  ASSUME IsFiles(target), NEW file, NEW mode, NEW path, NEW outcome \in FileOutcomes(file, mode, path)
  PROVE  outcome.failed \in BOOLEAN /\ TextsKept(target, outcome.target)
<1> DEFINE at == IF IsDir(target, path) THEN path \o file.rel ELSE path
           with_mode == IF args.check_mode THEN target ELSE [target EXCEPT ![at].mode = ModeAfter(target, at, mode)]
<1>0. PICK changed_mode \in BOOLEAN : changed_mode = (with_mode # target)
  OBVIOUS
<1>1. outcome = Outcome(TRUE, FALSE, target) \/ outcome = Outcome(FALSE, changed_mode, with_mode)
  BY <1>0 DEF FileOutcomes
<1>2. TextsKept(target, target) /\ TextsKept(target, with_mode)
  <2> HIDE DEF at
  <2> QED BY TextsKeptReflexive, ModeKeeps
<1>3. \/ outcome.failed = TRUE /\ outcome.target = target
      \/ outcome.failed = FALSE /\ (outcome.target = target \/ outcome.target = with_mode)
  <2> HIDE DEF with_mode
  <2>1. CASE outcome = Outcome(TRUE, FALSE, target) BY <2>1 DEF Outcome
  <2>2. CASE outcome = Outcome(FALSE, changed_mode, with_mode) BY <2>2 DEF Outcome
  <2> QED BY <1>1, <2>1, <2>2
<1> QED BY <1>2, <1>3

(***************************************************************************)
(* The arguments.                                                          *)
(***************************************************************************)

(* The call is the one it was at first, but for its mode. *)
ArgsInv ==
  /\ before.args \in Calls /\ before.target \in Targets
  /\ args = [before.args EXCEPT !.mode = args.mode]
  /\ pc \in {"check", "list"} => args = before.args

(* Nothing is done before its files are listed. *)
PhaseInv ==
  /\ pc \in {"check", "list", "copy", "done"}
  /\ next \in Nat \ {0}
  /\ pc \in {"check", "list"} =>
       /\ next = 1 /\ applied = {} /\ ~tempfile
       /\ dest = args.dest /\ slash = args.slash /\ target = before.target
  /\ pc = "list" => ~ArgsRefused

CallInv == ArgsInv /\ PhaseInv

(* Two calls that differ in the mode at most. *)
SameButMode(new, call) ==
  /\ IsCall(new)
  /\ new.content = call.content /\ new.sources = call.sources /\ new.dest = call.dest
  /\ new.slash = call.slash /\ new.raw = call.raw /\ new.force = call.force
  /\ new.remote_src = call.remote_src /\ new.follow = call.follow
  /\ new.decompress = call.decompress /\ new.check_mode = call.check_mode
  /\ \A other : [new EXCEPT !.mode = other] = [call EXCEPT !.mode = other]

(* A mode is a field like the others. *)
LEMMA ModeField ==
  ASSUME NEW call, IsCall(call), NEW mode
  PROVE  /\ SameButMode([call EXCEPT !.mode = mode], call)
         /\ [call EXCEPT !.mode = mode].mode = mode
<1> DEFINE With(other) ==
             [content |-> call.content, sources |-> call.sources, dest |-> call.dest, slash |-> call.slash,
              raw |-> call.raw, force |-> call.force, remote_src |-> call.remote_src,
              follow |-> call.follow, decompress |-> call.decompress, mode |-> other,
              check_mode |-> call.check_mode]
<1>1. call = With(call.mode)
  BY DEF IsCall
<1>2. \A old, other : [With(old) EXCEPT !.mode = other] = With(other)
  OBVIOUS
<1>3. \A other : [call EXCEPT !.mode = other] = With(other)
  <2> HIDE DEF With
  <2> QED BY <1>1, <1>2
<1>4. /\ With(mode).mode = mode /\ With(mode).content = call.content /\ With(mode).sources = call.sources
      /\ With(mode).dest = call.dest /\ With(mode).slash = call.slash /\ With(mode).raw = call.raw
      /\ With(mode).force = call.force /\ With(mode).remote_src = call.remote_src
      /\ With(mode).follow = call.follow /\ With(mode).decompress = call.decompress
      /\ With(mode).check_mode = call.check_mode
  OBVIOUS
<1>5. IsCall(With(mode))
  BY DEF IsCall
<1> HIDE DEF With
<1>6. SameButMode(With(mode), call)
  BY <1>2, <1>3, <1>4, <1>5 DEF SameButMode
<1> QED BY <1>3, <1>4, <1>6

(* So the arguments are those of the call. *)
LEMMA SameCall ==
  ASSUME CallInv
  PROVE  /\ IsCall(args) /\ IsCall(before.args) /\ IsFiles(before.target)
         /\ args.content = before.args.content /\ args.sources = before.args.sources
         /\ args.dest = before.args.dest /\ args.slash = before.args.slash
         /\ args.raw = before.args.raw /\ args.force = before.args.force
         /\ args.follow = before.args.follow /\ args.remote_src = before.args.remote_src
         /\ args.decompress = before.args.decompress /\ args.check_mode = before.args.check_mode
         /\ \A mode : [args EXCEPT !.mode = mode] = [before.args EXCEPT !.mode = mode]
         /\ \A mode : LET new == [args EXCEPT !.mode = mode] IN new = [before.args EXCEPT !.mode = new.mode]
<1>1. IsCall(before.args) /\ IsFiles(before.target)
  BY CopyAssumption DEF CallInv, ArgsInv
<1>2. args = [before.args EXCEPT !.mode = args.mode]
  BY DEF CallInv, ArgsInv
<1> DEFINE call == before.args
<1> HIDE DEF call
<1>3. IsCall(call) /\ args = [call EXCEPT !.mode = args.mode]
  BY <1>1, <1>2 DEF call
<1>4. PICK mode : args = [call EXCEPT !.mode = mode]
  BY <1>3
<1>5. /\ IsCall(args)
      /\ args.content = call.content /\ args.sources = call.sources /\ args.dest = call.dest
      /\ args.slash = call.slash /\ args.raw = call.raw /\ args.force = call.force
      /\ args.remote_src = call.remote_src /\ args.follow = call.follow
      /\ args.decompress = call.decompress /\ args.check_mode = call.check_mode
      /\ \A other : [args EXCEPT !.mode = other] = [call EXCEPT !.mode = other]
  <2>1. SameButMode(args, call)
    BY <1>3, <1>4, ModeField
  <2> HIDE DEF call
  <2> QED
    BY <2>1 DEF SameButMode
<1>6. \A other : LET new == [args EXCEPT !.mode = other] IN new = [call EXCEPT !.mode = new.mode]
  BY <1>3, <1>5, ModeField
<1> QED BY <1>1, <1>5, <1>6 DEF call

LEMMA CallInvInit == Init => CallInv
<1> SUFFICES ASSUME Init PROVE CallInv
  OBVIOUS
<1>1. IsCall(args)
  BY CopyAssumption DEF Init
<1>2. args = [args EXCEPT !.mode = args.mode]
  BY <1>1 DEF IsCall
<1>3. before.args = args /\ before.target = target /\ result.failed = FALSE
  BY DEF Init
<1>4. ArgsInv
  BY <1>2, <1>3 DEF Init, ArgsInv
<1>5. PhaseInv
  BY <1>3 DEF Init, PhaseInv
<1> QED BY <1>4, <1>5 DEF CallInv

(* No step changes the history, and all a step changes of the call is its mode. *)
LEMMA CallKept ==
  ASSUME CallInv, [Next]_vars
  PROVE  /\ before' = before
         /\ \/ args' = args /\ (pc' \in {"check", "list"} => pc \in {"check", "list"})
            \/ pc' \notin {"check", "list"} /\ \E mode : args' = [args EXCEPT !.mode = mode]
<1> USE DEF vars, state, Return
<1>1. CASE CheckArgs
  BY <1>1 DEF CheckArgs
<1>2. CASE MakeTempfile
  BY <1>2 DEF MakeTempfile
<1>3. CASE RemoteSrc
  BY <1>3 DEF RemoteSrc
<1>4. CASE ListFiles
  BY <1>4 DEF ListFiles
<1>5. CASE SourceMissing
  BY <1>5 DEF SourceMissing, TheNext
<1>6. CASE ConnectionBreaks
  BY <1>6 DEF ConnectionBreaks, TheNext
<1>7. CASE ContentToDirectory
  BY <1>7 DEF ContentToDirectory, TheNext, RemoveTempfile
<1>8. CASE PassOver
  BY <1>8, SameCall DEF PassOver, TheNext, Continue
<1>9. CASE CheckOnly
  BY <1>9, SameCall DEF CheckOnly, ToCopy, TheNext, Continue, RemoveTempfile
<1>10. CASE SendRaw
  BY <1>10, SameCall DEF SendRaw, ToCopy, TheNext, Continue, RemoveTempfile
<1>11. CASE RunModule
  BY <1>11, SameCall DEF RunModule, ToCopy, TheNext, ModuleReturned, RemoveTempfile, ResetMode, Accumulate
<1>12. CASE RunFile
  BY <1>12, SameCall DEF RunFile, ToCopy, TheNext, ModuleReturned, RemoveTempfile, ResetMode, Accumulate
<1>13. CASE Finish
  BY <1>13 DEF Finish
<1>14. CASE Done \/ UNCHANGED vars
  BY <1>14 DEF Done
<1> QED BY <1>1, <1>2, <1>3, <1>4, <1>5, <1>6, <1>7, <1>8, <1>9, <1>10, <1>11, <1>12, <1>13, <1>14 DEF Next

LEMMA ArgsInvNext == CallInv /\ [Next]_vars => ArgsInv'
<1> SUFFICES ASSUME CallInv, [Next]_vars PROVE ArgsInv'
  OBVIOUS
<1>1. before' = before
  BY CallKept
<1>2. args' = args \/ \E mode : args' = [args EXCEPT !.mode = mode]
  BY CallKept
<1>3. args' = [before.args EXCEPT !.mode = args'.mode]
  BY <1>2, SameCall DEF CallInv, ArgsInv
<1>4. pc' \in {"check", "list"} => args' = before.args
  BY CallKept DEF CallInv, ArgsInv
<1> QED BY <1>1, <1>3, <1>4 DEF CallInv, ArgsInv

LEMMA PhaseInvNext == CallInv /\ [Next]_vars => PhaseInv'
<1> SUFFICES ASSUME CallInv, [Next]_vars PROVE PhaseInv'
  OBVIOUS
<1> USE DEF CallInv, PhaseInv, Return, state, vars, ArgsRefused
<1>1. CASE CheckArgs
  BY <1>1 DEF CheckArgs
<1>2. CASE MakeTempfile
  BY <1>2 DEF MakeTempfile
<1>3. CASE RemoteSrc
  BY <1>3 DEF RemoteSrc
<1>4. CASE ListFiles
  BY <1>4 DEF ListFiles
<1>5. CASE SourceMissing
  BY <1>5 DEF SourceMissing, TheNext
<1>6. CASE ConnectionBreaks
  BY <1>6 DEF ConnectionBreaks, TheNext
<1>7. CASE ContentToDirectory
  BY <1>7 DEF ContentToDirectory, TheNext, RemoveTempfile
<1>8. CASE PassOver
  BY <1>8 DEF PassOver, TheNext, Continue
<1>9. CASE CheckOnly
  BY <1>9 DEF CheckOnly, ToCopy, TheNext, Continue, RemoveTempfile
<1>10. CASE SendRaw
  BY <1>10 DEF SendRaw, ToCopy, TheNext, Continue, RemoveTempfile
<1>11. CASE RunModule
  BY <1>11 DEF RunModule, ToCopy, TheNext, ModuleReturned, RemoveTempfile, ResetMode, Accumulate
<1>12. CASE RunFile
  BY <1>12 DEF RunFile, ToCopy, TheNext, ModuleReturned, RemoveTempfile, ResetMode, Accumulate
<1>13. CASE Finish
  BY <1>13 DEF Finish
<1>14. CASE Done \/ UNCHANGED vars
  BY <1>14 DEF Done
<1> QED BY <1>1, <1>2, <1>3, <1>4, <1>5, <1>6, <1>7, <1>8, <1>9, <1>10, <1>11, <1>12, <1>13, <1>14 DEF Next

LEMMA CallInvariance == Spec => []CallInv
<1>1. CallInv /\ [Next]_vars => CallInv'
  BY ArgsInvNext, PhaseInvNext DEF CallInv
<1> QED BY CallInvInit, <1>1, PTL DEF Spec

(* Nothing else of the call changes. *)
LEMMA FieldsKept ==
  ASSUME CallInv, [Next]_vars
  PROVE  /\ before' = before
         /\ args'.raw = args.raw /\ args'.force = args.force /\ args'.content = args.content
         /\ args'.dest = args.dest /\ args'.remote_src = args.remote_src /\ args'.follow = args.follow
         /\ args'.decompress = args.decompress /\ args'.check_mode = args.check_mode
         /\ args'.sources = args.sources
<1>1. IsCall(args)
  BY SameCall
<1>2. before' = before /\ (args' = args \/ \E mode : args' = [args EXCEPT !.mode = mode])
  BY CallKept
<1>3. args' = args \/ SameButMode(args', args)
  <2>1. CASE args' = args
    BY <2>1
  <2>2. CASE \E mode : args' = [args EXCEPT !.mode = mode]
    BY <1>1, <2>2, ModeField
  <2> QED
    BY <1>2, <2>1, <2>2
<1> QED
  BY <1>2, <1>3 DEF SameButMode

(***************************************************************************)
(* The texts of the target.                                                *)
(***************************************************************************)

(* An entry was a link, has the text it had, that of a source file up to the *)
(* next one, or is torn.                                                     *)
KeptOrWritten(fs, path) ==
  \/ before.target[path].kind = "link"
  \/ fs[path].text = before.target[path].text
  \/ fs[path].text = "torn" /\ (args.raw \/ args.decompress)
  \/ \E k \in 1..next : fs[path].text = Given[k].text

(* What may be written now. *)
MayWriteText(text) ==
  \/ text = "torn" /\ (args.raw \/ args.decompress)
  \/ \E k \in 1..next : text = Given[k].text

TextsInv ==
  /\ NoNewLink(before.target, target)
  /\ pc = "copy" => args.content \/ ~args.remote_src
  /\ \A path \in DOMAIN target : KeptOrWritten(target, path)

(* A step that writes such a text to the target, or none. *)
LEMMA TextsChange ==
  ASSUME CallInv, TextsInv, [Next]_vars, NEW text,
         TextsKeptOr(target, target', text), MayWriteText(text) \/ TextsKept(target, target'),
         files' = files, next' \in {next, next + 1}, pc' = "copy" => pc = "copy"
  PROVE  TextsInv'
<1>1. /\ before' = before /\ args'.raw = args.raw /\ args'.decompress = args.decompress
      /\ args'.content = args.content /\ args'.remote_src = args.remote_src /\ args'.sources = args.sources
  BY FieldsKept
<1>2. Given' = Given
  BY <1>1 DEF Given
<1>3. \A k \in 1..next : k \in 1..(next')
  <2>1. next \in Nat /\ (next' = next \/ next' = next + 1)
    BY DEF CallInv, PhaseInv
  <2> QED BY <2>1
<1>4. NoNewLink(before.target, target)'
  BY <1>1 DEF TextsInv, NoNewLink, TextsKeptOr
<1>5. \A path \in DOMAIN target : KeptOrWritten(target, path) => KeptOrWritten(target, path)' \/ target'[path].text # target[path].text
  BY <1>1, <1>2, <1>3 DEF KeptOrWritten
<1>6. ASSUME NEW path \in DOMAIN target, target'[path].text # target[path].text
      PROVE  KeptOrWritten(target, path)'
  <2>1. CASE target[path].kind = "link"
    BY <1>1, <2>1 DEF TextsInv, NoNewLink, KeptOrWritten
  <2>2. CASE target[path].kind # "link"
    <3>1. MayWriteText(text) /\ target'[path].text = text
      BY <1>6, <2>2 DEF TextsKept, TextsKeptOr
    <3> QED BY <1>1, <1>2, <1>3, <3>1 DEF MayWriteText, KeptOrWritten
  <2> QED BY <2>1, <2>2
<1>7. DOMAIN target' = DOMAIN target
  BY DEF TextsKeptOr, NoNewLink
<1>8. pc' = "copy" => args'.content \/ ~args'.remote_src
  BY <1>1 DEF TextsInv
<1> QED BY <1>4, <1>5, <1>6, <1>7, <1>8 DEF TextsInv

(* A step that writes no text. *)
LEMMA TextsSame ==
  ASSUME CallInv, TextsInv, [Next]_vars, TextsKept(target, target'),
         files' = files, next' \in {next, next + 1}, pc' = "copy" => pc = "copy"
  PROVE  TextsInv'
<1>1. TextsKeptOr(target, target', "torn")
  BY TextsKeptWeaker
<1> QED BY <1>1, TextsChange

LEMMA TextsInvInit == Init => TextsInv
<1> SUFFICES ASSUME Init PROVE TextsInv
  OBVIOUS
<1>1. target \in Targets /\ before.target = target
  BY DEF Init
<1>2. IsFiles(target)
  BY <1>1, CopyAssumption
<1> QED BY <1>1, <1>2 DEF TextsInv, NoNewLink, KeptOrWritten, Init

(* The next file is one of those given. *)
LEMMA NextIsGiven ==
  ASSUME CallInv, TextsInv, pc = "copy"
  PROVE  MayWriteText(files[next].text)
<1>1. next \in 1..next
  BY DEF CallInv, PhaseInv
<1>2. Given = files
  BY DEF TextsInv, Given
<1> QED BY <1>1, <1>2 DEF MayWriteText

LEMMA TextsInvNext == CallInv /\ TextsInv /\ [Next]_vars => TextsInv'
<1> SUFFICES ASSUME CallInv, TextsInv, [Next]_vars PROVE TextsInv'
  OBVIOUS
<1>a. IsFiles(target) /\ next \in Nat \ {0} /\ TextsKept(target, target)
  BY TextsKeptReflexive DEF TextsInv, NoNewLink, CallInv, PhaseInv
(* Before the files are listed it is what it was. *)
<1>b. ASSUME target' = target, pc = "list", args' = args, pc' = "copy" => args.content \/ ~args.remote_src
      PROVE  TextsInv'
  <2>1. target = before.target /\ before' = before
    BY <1>b, CallKept DEF CallInv, PhaseInv
  <2>2. NoNewLink(before.target, target)'
    BY <1>a, <1>b, <2>1 DEF NoNewLink
  <2>3. \A path \in DOMAIN target' : KeptOrWritten(target, path)'
    BY <2>1, <1>b DEF KeptOrWritten
  <2> QED BY <1>b, <2>2, <2>3 DEF TextsInv
<1> USE DEF vars, state, Return
<1>1. CASE CheckArgs
  BY <1>1, <1>a, TextsSame DEF CheckArgs
<1>2. CASE MakeTempfile
  BY <1>2, <1>b DEF MakeTempfile
<1>3. CASE RemoteSrc
  <2> DEFINE file == args.sources[1].files[1]
  <2>1. PICK outcome \in ModuleOutcomes(file, args.mode) :
          pc' = "done" /\ target' = outcome.target /\ UNCHANGED <<files, next>>
    BY <1>3 DEF RemoteSrc
  <2>2. next = 1 /\ Given[1] = file
    BY <1>3 DEF RemoteSrc, Given, CallInv, PhaseInv
  <2> HIDE DEF file
  <2>3. MayWriteText(file.text)
    BY <2>2 DEF MayWriteText
  <2>4. TextsKeptOr(target, target', file.text) \/ (args.decompress /\ TextsKeptOr(target, target', "torn"))
    BY <1>a, <2>1, ModuleKeeps
  <2>5. args.decompress => MayWriteText("torn")
    BY DEF MayWriteText
  <2> QED BY <2>1, <2>3, <2>4, <2>5, TextsChange
<1>4. CASE ListFiles
  BY <1>4, <1>b DEF ListFiles
<1>5. CASE SourceMissing
  BY <1>5, <1>a, TextsSame DEF SourceMissing, TheNext
<1>6. CASE ConnectionBreaks
  <2>0. UNCHANGED <<files, next>> /\ pc' = "done"
    BY <1>6 DEF ConnectionBreaks
  <2>1. CASE UNCHANGED target
    BY <2>0, <2>1, <1>a, TextsSame
  <2>2. CASE ~UNCHANGED target
    <3>1. args.raw /\ \E path : target' = [target EXCEPT ![path] = File("torn", "default")]
      BY <1>6, <2>2 DEF ConnectionBreaks, ToCopy
    <3>2. MayWriteText("torn")
      BY <3>1 DEF MayWriteText
    <3>3. PICK path : target' = [target EXCEPT ![path] = File("torn", "default")]
      BY <3>1
    <3>4. TextsKeptOr(target, [target EXCEPT ![path] = File("torn", "default")], "torn")
      BY <1>a, FileKeeps
    <3>5. TextsKeptOr(target, target', "torn")
      BY <3>3, <3>4
    <3> QED BY <2>0, <3>2, <3>5, TextsChange
  <2> QED BY <2>1, <2>2
<1>7. CASE ContentToDirectory
  BY <1>7, <1>a, TextsSame DEF ContentToDirectory, TheNext, RemoveTempfile
<1>8. CASE PassOver
  BY <1>8, <1>a, TextsSame DEF PassOver, TheNext, Continue
<1>9. CASE CheckOnly
  BY <1>9, <1>a, TextsSame DEF CheckOnly, ToCopy, TheNext, Continue, RemoveTempfile
<1>10. CASE SendRaw
  <2>0. UNCHANGED <<files, pc>> /\ next' = next + 1 /\ pc = "copy"
    BY <1>10 DEF SendRaw, Continue, ToCopy, TheNext
  <2> DEFINE file == files[next]
  <2>1. target' = target \/ \E path, mode : target' = [target EXCEPT ![path] = File(file.text, mode)]
    BY <1>10 DEF SendRaw
  <2>2. MayWriteText(file.text)
    BY <2>0, NextIsGiven
  <2> HIDE DEF file
  <2>3. TextsKeptOr(target, target', file.text)
    BY <1>a, <2>1, FileKeeps, TextsKeptWeaker
  <2> QED BY <2>0, <2>2, <2>3, TextsChange
<1>11. CASE RunModule
  <2> DEFINE file == files[next]
  <2>1. PICK outcome \in ModuleOutcomes(file, ModeOf(file)) : ModuleReturned(file, TRUE, outcome)
    BY <1>11 DEF RunModule
  <2>2. pc = "copy" /\ files' = files /\ next' \in {next, next + 1} /\ target' = outcome.target
    BY <1>11, <2>1 DEF RunModule, ToCopy, TheNext, ModuleReturned
  <2>3. MayWriteText(file.text) /\ (args.decompress => MayWriteText("torn"))
    BY <2>2, NextIsGiven DEF MayWriteText
  <2> HIDE DEF file
  <2>4. TextsKeptOr(target, target', file.text) \/ (args.decompress /\ TextsKeptOr(target, target', "torn"))
    BY <1>a, <2>1, <2>2, ModuleKeeps
  <2> QED BY <2>2, <2>3, <2>4, TextsChange
<1>12. CASE RunFile
  <2> DEFINE file == files[next]
  <2>0. PICK path : \E outcome \in FileOutcomes(file, ModeOf(file), path) : ModuleReturned(file, changed, outcome)
    BY <1>12 DEF RunFile
  <2>1. PICK outcome \in FileOutcomes(file, ModeOf(file), path) : ModuleReturned(file, changed, outcome)
    BY <2>0
  <2>2. pc = "copy" /\ files' = files /\ next' \in {next, next + 1} /\ target' = outcome.target
    BY <1>12, <2>1 DEF RunFile, ToCopy, TheNext, ModuleReturned
  <2> HIDE DEF file
  <2>3. TextsKept(target, target')
    BY <1>a, <2>1, <2>2, FileModuleKeeps
  <2> QED BY <2>2, <2>3, TextsSame
<1>13. CASE Finish
  BY <1>13, <1>a, TextsSame DEF Finish
<1>14. CASE Done \/ UNCHANGED vars
  BY <1>14, <1>a, TextsSame DEF Done
<1> QED BY <1>1, <1>2, <1>3, <1>4, <1>5, <1>6, <1>7, <1>8, <1>9, <1>10, <1>11, <1>12, <1>13, <1>14 DEF Next

(* TextsInv, what each file of the target may be at each step of a call,     *)
(* whichever of its modules fails and wherever it does, holds in every       *)
(* reachable state.                                                          *)
THEOREM TextsInvariance == Spec => []TextsInv
<1>1. TextsInv /\ CallInv /\ [Next]_vars => TextsInv'
  BY TextsInvNext
<1> QED BY TextsInvInit, CallInvariance, <1>1, PTL DEF Spec

(* A call that fails leaves each file as it was, or with the whole text of a  *)
(* source file up to the failing one, unless it was a link: it is torn only   *)
(* by a file that was sent to its place itself or by an archive.              *)
THEOREM OnlyInPlaceTears == Spec => []FailureKeepsText
<1>1. TextsInv => FailureKeepsText
  BY DEF TextsInv, KeptOrWritten, FailureKeepsText
<1> QED BY TextsInvariance, <1>1, PTL

(***************************************************************************)
(* The modes.                                                              *)
(***************************************************************************)

(* With "preserve" the mode is "preserve" when a file is taken up, unless no *)
(* module was run for the file before.                                       *)
ModesInv ==
  /\ \A a \in applied : a.index \in Nat /\ a.index <= next /\ (pc = "copy" => a.index < next)
  /\ before.args.mode = "preserve" =>
       \/ pc # "copy"
       \/ args.mode = "preserve"
       \/ next > 1 /\ \A a \in applied : a.index # next - 1

(* The modules that are run get the mode of their own files, or nothing was  *)
(* run for the file before.                                                  *)
OwnOrAfterNone(a) ==
  a.mode = files[a.index].mode \/ (a.index > 1 /\ \A b \in applied : b.index # a.index - 1)

OwnModes == before.args.mode = "preserve" => \A a \in applied : OwnOrAfterNone(a)

LEMMA ModesInvInit == Init => ModesInv /\ OwnModes
  BY DEF Init, ModesInv, OwnModes

LEMMA ModesInvNext == CallInv /\ ModesInv /\ [Next]_vars => ModesInv'
<1> SUFFICES ASSUME CallInv, ModesInv, [Next]_vars PROVE ModesInv'
  OBVIOUS
<1>a. before' = before /\ next \in Nat \ {0}
  BY CallKept DEF CallInv, PhaseInv
<1>b. IsCall(args)
  BY SameCall
(* Nothing more of a file: the step is no module's. *)
<1>c. ASSUME pc' = "copy", pc = "copy", UNCHANGED applied, next' = next + 1 PROVE ModesInv'
  BY <1>a, <1>c DEF ModesInv
(* The call ends, or has not come so far. *)
<1>d. ASSUME pc' # "copy", UNCHANGED <<applied, next>> PROVE ModesInv'
  BY <1>a, <1>d DEF ModesInv
(* Its files are listed. *)
<1>e. ASSUME pc = "list", UNCHANGED <<applied, next, args>> PROVE ModesInv'
  BY <1>a, <1>e DEF ModesInv, CallInv, PhaseInv, ArgsInv
(* A module is run for the next file. *)
<1>f. ASSUME pc = "copy", NEW was, NEW outcome, ModuleReturned(files[next], was, outcome) PROVE ModesInv'
  <2>1. applied' = applied \cup {[index |-> next, mode |-> ModeOf(files[next])]}
    BY <1>f DEF ModuleReturned
  <2>2. CASE outcome.failed
    BY <1>a, <1>f, <2>1, <2>2 DEF ModuleReturned, Return, ModesInv
  <2>3. CASE ~outcome.failed
    <3>1. args' = [args EXCEPT !.mode = before.args.mode] /\ next' = next + 1 /\ pc' = "copy"
      BY <1>f, <2>3 DEF ModuleReturned, ResetMode
    <3>2. args'.mode = before.args.mode
      <4>1. \A mode : [args EXCEPT !.mode = mode].mode = mode
        BY <1>b DEF IsCall
      <4> QED BY <3>1, <4>1
    <3>3. \A a \in applied' : a.index \in Nat /\ a.index <= next
      BY <1>a, <1>f, <2>1 DEF ModesInv
    <3> QED BY <1>a, <3>1, <3>2, <3>3 DEF ModesInv
  <2> QED BY <2>2, <2>3
<1> USE DEF vars, state, Return
<1>1. CASE CheckArgs
  BY <1>1, <1>d DEF CheckArgs
<1>2. CASE MakeTempfile
  BY <1>2, <1>d, <1>e DEF MakeTempfile
<1>3. CASE RemoteSrc
  BY <1>3, <1>d DEF RemoteSrc
<1>4. CASE ListFiles
  BY <1>4, <1>d, <1>e DEF ListFiles
<1>5. CASE SourceMissing
  BY <1>5, <1>d DEF SourceMissing, TheNext
<1>6. CASE ConnectionBreaks
  BY <1>6, <1>d DEF ConnectionBreaks, TheNext
<1>7. CASE ContentToDirectory
  BY <1>7, <1>d DEF ContentToDirectory, TheNext, RemoveTempfile
<1>8. CASE PassOver
  BY <1>8, <1>c DEF PassOver, TheNext, Continue
<1>9. CASE CheckOnly
  BY <1>9, <1>c DEF CheckOnly, ToCopy, TheNext, Continue, RemoveTempfile
<1>10. CASE SendRaw
  BY <1>10, <1>c DEF SendRaw, ToCopy, TheNext, Continue, RemoveTempfile
<1>11. CASE RunModule
  BY <1>11, <1>f DEF RunModule, ToCopy, TheNext
<1>12. CASE RunFile
  BY <1>12, <1>f DEF RunFile, ToCopy, TheNext
<1>13. CASE Finish
  BY <1>13, <1>d DEF Finish
<1>14. CASE Done \/ UNCHANGED vars
  BY <1>14, <1>a DEF Done, ModesInv
<1> QED BY <1>1, <1>2, <1>3, <1>4, <1>5, <1>6, <1>7, <1>8, <1>9, <1>10, <1>11, <1>12, <1>13, <1>14 DEF Next

LEMMA OwnModesNext == CallInv /\ ModesInv /\ OwnModes /\ [Next]_vars => OwnModes'
<1> SUFFICES ASSUME CallInv, ModesInv, OwnModes, [Next]_vars PROVE OwnModes'
  OBVIOUS
<1>a. before' = before /\ next \in Nat \ {0}
  BY CallKept DEF CallInv, PhaseInv
<1>c. ASSUME UNCHANGED <<files, applied>> PROVE OwnModes'
  BY <1>a, <1>c DEF OwnModes, OwnOrAfterNone
<1>d. ASSUME pc = "list", UNCHANGED applied PROVE OwnModes'
  BY <1>d DEF OwnModes, CallInv, PhaseInv
<1>f. ASSUME pc = "copy", NEW was, NEW outcome, ModuleReturned(files[next], was, outcome) PROVE OwnModes'
  <2> DEFINE new == [index |-> next, mode |-> ModeOf(files[next])]
  <2>1. applied' = applied \cup {new} /\ files' = files
    BY <1>f DEF ModuleReturned
  <2> SUFFICES ASSUME before.args.mode = "preserve", NEW a \in applied' PROVE OwnOrAfterNone(a)'
    BY <1>a DEF OwnModes
  <2>2. \A b \in applied : b.index \in Nat /\ b.index < next
    BY <1>f DEF ModesInv
  <2>3. CASE a \in applied
    <3>1. OwnOrAfterNone(a)
      BY <2>3 DEF OwnModes
    <3>2. new.index # a.index - 1
      BY <1>a, <2>2, <2>3
    <3> QED BY <2>1, <3>1, <3>2 DEF OwnOrAfterNone
  <2>4. CASE a = new
    <3>1. a.index = next /\ a.mode = ModeOf(files[next])
      BY <2>4
    <3>2. CASE args.mode = "preserve"
      BY <2>1, <3>1, <3>2 DEF OwnOrAfterNone, ModeOf
    <3>3. CASE next > 1 /\ \A b \in applied : b.index # next - 1
      <4>1. new.index # next - 1
        BY <1>a
      <4> QED BY <2>1, <3>1, <3>3, <4>1 DEF OwnOrAfterNone
    <3> QED BY <1>f, <3>2, <3>3 DEF ModesInv
  <2> QED BY <2>1, <2>3, <2>4
<1> USE DEF vars, state, Return
<1>1. CASE CheckArgs
  BY <1>1, <1>c DEF CheckArgs
<1>2. CASE MakeTempfile
  BY <1>2, <1>d DEF MakeTempfile
<1>3. CASE RemoteSrc
  BY <1>3, <1>c DEF RemoteSrc
<1>4. CASE ListFiles
  BY <1>4, <1>d DEF ListFiles
<1>5. CASE SourceMissing
  BY <1>5, <1>c DEF SourceMissing, TheNext
<1>6. CASE ConnectionBreaks
  BY <1>6, <1>c DEF ConnectionBreaks, TheNext
<1>7. CASE ContentToDirectory
  BY <1>7, <1>c DEF ContentToDirectory, TheNext, RemoveTempfile
<1>8. CASE PassOver
  BY <1>8, <1>c DEF PassOver, TheNext, Continue
<1>9. CASE CheckOnly
  BY <1>9, <1>c DEF CheckOnly, ToCopy, TheNext, Continue, RemoveTempfile
<1>10. CASE SendRaw
  BY <1>10, <1>c DEF SendRaw, ToCopy, TheNext, Continue, RemoveTempfile
<1>11. CASE RunModule
  BY <1>11, <1>f DEF RunModule, ToCopy, TheNext
<1>12. CASE RunFile
  BY <1>12, <1>f DEF RunFile, ToCopy, TheNext
<1>13. CASE Finish
  BY <1>13, <1>c DEF Finish
<1>14. CASE Done \/ UNCHANGED vars
  BY <1>14, <1>c DEF Done
<1> QED BY <1>1, <1>2, <1>3, <1>4, <1>5, <1>6, <1>7, <1>8, <1>9, <1>10, <1>11, <1>12, <1>13, <1>14 DEF Next

(* With "preserve" a module is given the mode of its own source file, unless  *)
(* none was run for the file before: then that one's mode stays.              *)
THEOREM ModesAreOwn == Spec => []ModeIsOwn
<1>1. OwnModes => ModeIsOwn
  BY DEF OwnModes, OwnOrAfterNone, ModeIsOwn
<1>2. ModesInv /\ OwnModes /\ CallInv /\ [Next]_vars => (ModesInv /\ OwnModes)'
  BY ModesInvNext, OwnModesNext
<1> QED BY ModesInvInit, CallInvariance, <1>1, <1>2, PTL DEF Spec

(***************************************************************************)
(* The temporary file of content.                                          *)
(***************************************************************************)

(* While it is there nothing was done for it yet, or it was passed over as   *)
(* its place was taken.                                                      *)
TempfileInv ==
  tempfile =>
    /\ args.content /\ dest = args.dest /\ ~slash
    /\ pc \in {"copy", "done"}
    /\ pc = "copy" => target = before.target /\ Len(files) = 1
    /\ \/ pc = "copy" /\ next = 1
       \/ pc = "done" /\ result.failed
       \/ ~args.force /\ Exists(before.target, args.dest)

LEMMA TempfileInvNext == CallInv /\ TempfileInv /\ [Next]_vars => TempfileInv'
<1> SUFFICES ASSUME CallInv, TempfileInv, [Next]_vars PROVE TempfileInv'
  OBVIOUS
<1>a. /\ before' = before /\ next \in Nat \ {0}
      /\ args'.content = args.content /\ args'.force = args.force /\ args'.dest = args.dest
  BY CallKept, FieldsKept DEF CallInv, PhaseInv
<1>b. ASSUME tempfile' = FALSE PROVE TempfileInv'
  BY <1>b DEF TempfileInv
(* The call fails. *)
<1>c. ASSUME pc = "copy", pc' = "done", result'.failed = TRUE, UNCHANGED <<dest, slash, tempfile>> PROVE TempfileInv'
  BY <1>a, <1>c DEF TempfileInv
<1>d. ASSUME ~tempfile, UNCHANGED tempfile PROVE TempfileInv'
  BY <1>d DEF TempfileInv
<1> USE DEF vars, state, Return
<1>1. CASE CheckArgs
  BY <1>1, <1>d DEF CheckArgs, CallInv, PhaseInv
<1>2. CASE MakeTempfile
  BY <1>2 DEF MakeTempfile, CallInv, PhaseInv, ContentFile, TempfileInv, ArgsRefused
<1>3. CASE RemoteSrc
  BY <1>3, <1>d DEF RemoteSrc, CallInv, PhaseInv
<1>4. CASE ListFiles
  BY <1>4, <1>d DEF ListFiles, CallInv, PhaseInv
<1>5. CASE SourceMissing
  BY <1>5, <1>c DEF SourceMissing, TheNext
<1>6. CASE ConnectionBreaks
  BY <1>6, <1>c DEF ConnectionBreaks, TheNext
<1>7. CASE ContentToDirectory
  BY <1>7, <1>b DEF ContentToDirectory, TheNext, RemoveTempfile
<1>8. CASE PassOver
  BY <1>8 DEF PassOver, TheNext, Continue, Taken, DestFile, TempfileInv, Exists
<1>9. CASE CheckOnly
  BY <1>9, <1>b DEF CheckOnly, ToCopy, TheNext, Continue, RemoveTempfile
<1>10. CASE SendRaw
  BY <1>10, <1>b DEF SendRaw, ToCopy, TheNext, Continue, RemoveTempfile
<1>11. CASE RunModule
  BY <1>11, <1>b DEF RunModule, ToCopy, TheNext, ModuleReturned, RemoveTempfile, ResetMode, Accumulate
<1>12. CASE RunFile
  BY <1>12, <1>b DEF RunFile, ToCopy, TheNext, ModuleReturned, RemoveTempfile, ResetMode, Accumulate
<1>13. CASE Finish
  <2> SUFFICES ASSUME tempfile' PROVE TempfileInv'
    BY DEF TempfileInv
  <2>1. tempfile /\ pc = "copy" /\ next > Len(files) /\ pc' = "done" /\ UNCHANGED <<args, dest, slash, tempfile, before>>
    BY <1>13 DEF Finish
  <2>2. ~(pc = "copy" /\ next = 1)
    <3> SUFFICES ASSUME pc = "copy", next = 1 PROVE FALSE
      OBVIOUS
    <3>1. Len(files) = 1 /\ next > Len(files)
      BY <2>1 DEF TempfileInv
    <3> QED
      BY <3>1
  <2>3. pc # "done"
    BY <2>1
  <2>4. args.content /\ dest = args.dest /\ ~slash /\ ~args.force /\ Exists(before.target, args.dest)
    <3> HIDE DEF Exists
    <3> QED
      BY <2>1, <2>2, <2>3 DEF TempfileInv
  <2>5. /\ pc' = "done" /\ args' = args /\ dest' = dest /\ slash' = slash /\ before' = before
    BY <2>1
  <2>6. Exists(before.target, args.dest)'
    BY <2>4, <2>5 DEF Exists
  <2> QED
    BY <2>4, <2>5, <2>6 DEF TempfileInv
<1>14. CASE Done \/ UNCHANGED vars
  BY <1>14, <1>a DEF Done, TempfileInv
<1> QED BY <1>1, <1>2, <1>3, <1>4, <1>5, <1>6, <1>7, <1>8, <1>9, <1>10, <1>11, <1>12, <1>13, <1>14 DEF Next

(* The temporary file of content is left behind only by a call that fails or  *)
(* passes the file over.                                                      *)
THEOREM NoTempfileIsLeft == Spec => []TempfileRemoved
<1>1. TempfileInv => TempfileRemoved
  BY DEF TempfileInv, TempfileRemoved
<1>2. Init => TempfileInv
  BY DEF Init, TempfileInv
<1>3. TempfileInv /\ CallInv /\ [Next]_vars => TempfileInv'
  BY TempfileInvNext
<1> QED BY CallInvariance, <1>1, <1>2, <1>3, PTL DEF Spec

(***************************************************************************)
(* The list of the source files.                                           *)
(***************************************************************************)

(* Of a set of numbers one is the least. *)
LEMMA LeastNat ==
  ASSUME NEW S \in SUBSET Nat, S # {}
  PROVE  \E n \in S : \A m \in S : n <= m
<1> DEFINE R == OpToRel(<, Nat)
<1>1. IsWellFoundedOn(R, Nat)
  BY NatLessThanWellFounded
<1>2. \A m, n \in Nat : m < n => <<m, n>> \in R
  BY DEF OpToRel
<1> HIDE DEF R
<1>3. PICK n \in S : \A m \in S : <<m, n>> \notin R
  BY <1>1, WFMin
<1>4. \A m \in S : ~(m < n)
  BY <1>2, <1>3
<1> QED
  BY <1>4

(* The concatenations of the first k of some lists. *)
Concatenates(g, k, seqs) ==
  /\ g = [i \in 1..k |-> g[i]]
  /\ \A i \in 1..k : g[i] = IF i = 1 THEN seqs[i] ELSE g[i - 1] \o seqs[i]

(* Every list of lists has a concatenation: else a first prefix would not. *)
LEMMA ConcatenationExists ==
  ASSUME NEW seqs, NEW n \in Nat
  PROVE  \E g : Concatenates(g, n, seqs)
<1> DEFINE Bad == {k \in 0..n : ~\E g : Concatenates(g, k, seqs)}
<1>1. SUFFICES ASSUME Bad # {} PROVE FALSE
  <2>1. n \in 0..n
    OBVIOUS
  <2> QED
    BY <2>1
<1>2. PICK k \in Bad : \A l \in Bad : k <= l
  <2>1. Bad \in SUBSET Nat
    OBVIOUS
  <2> HIDE DEF Bad
  <2> QED
    BY <1>1, <2>1, LeastNat
<1>3. CASE k = 0
  <2>1. Concatenates([i \in 1..0 |-> <<>>], 0, seqs)
    BY DEF Concatenates
  <2> QED
    BY <1>2, <1>3, <2>1
<1>4. CASE k # 0
  <2>1. k \in 1..n /\ k - 1 \in 0..n /\ ~(k <= k - 1)
    BY <1>2, <1>4
  <2>2. k - 1 \notin Bad
    <3> HIDE DEF Bad
    <3> QED
      BY <1>2, <2>1
  <2>3. PICK g : Concatenates(g, k - 1, seqs)
    BY <2>1, <2>2
  <2> DEFINE last == IF k = 1 THEN seqs[k] ELSE g[k - 1] \o seqs[k]
             h == [i \in 1..k |-> IF i = k THEN last ELSE g[i]]
  <2>4. \A i \in 1..k : h[i] = IF i = 1 THEN seqs[i] ELSE h[i - 1] \o seqs[i]
    <3> TAKE i \in 1..k
    <3>1. CASE i = k
      <4>1. i # 1 => i - 1 \in 1..k /\ i - 1 # k
        BY <2>1
      <4>2. i # 1 => h[i - 1] = g[i - 1]
        BY <4>1
      <4> QED
        BY <3>1, <4>2
    <3>2. CASE i # k
      <4>1. i \in 1..(k - 1) /\ (i # 1 => i - 1 \in 1..k /\ i - 1 # k)
        BY <2>1, <3>2
      <4>2. h[i] = g[i] /\ (i # 1 => h[i - 1] = g[i - 1])
        BY <3>2, <4>1
      <4>3. g[i] = IF i = 1 THEN seqs[i] ELSE g[i - 1] \o seqs[i]
        BY <2>3, <4>1 DEF Concatenates
      <4> HIDE DEF h
      <4> QED
        BY <4>2, <4>3
    <3> QED
      BY <3>1, <3>2
  <2>5. h = [i \in 1..k |-> h[i]]
    OBVIOUS
  <2>6. Concatenates(h, k, seqs)
    <3> HIDE DEF h
    <3> QED
      BY <2>4, <2>5 DEF Concatenates
  <2> QED
    BY <1>2, <2>6
<1> QED
  BY <1>3, <1>4

(* A concatenation has the elements of its parts. *)
LEMMA FlattenElements ==
  ASSUME NEW S, NEW seqs \in Seq(Seq(S))
  PROVE  FlattenSeq(seqs) \in Seq(S)
<1> DEFINE n == Len(seqs)
           Turn(g, i) == IF i = 1 THEN seqs[i] ELSE g[i - 1] \o seqs[i]
           flatten == CHOOSE g : g = [i \in 1..n |-> Turn(g, i)]
<1>1. n \in Nat /\ \A i \in 1..n : seqs[i] \in Seq(S)
  OBVIOUS
<1>2. FlattenSeq(seqs) = IF n = 0 THEN seqs ELSE flatten[n]
  BY DEF FlattenSeq
<1>3. CASE n = 0
  <2>1. seqs = <<>>
    BY <1>3
  <2> QED
    BY <1>2, <1>3, <2>1
<1>4. CASE n # 0
  <2> HIDE DEF n
  <2>1. flatten = [i \in 1..n |-> Turn(flatten, i)]
    <3>1. PICK g : Concatenates(g, n, seqs)
      BY <1>1, ConcatenationExists
    <3>2. g = [i \in 1..n |-> Turn(g, i)]
      BY <3>1 DEF Concatenates
    <3> HIDE DEF Turn
    <3> QED
      BY <3>2
  <2> HIDE DEF flatten
  <2>2. \A i \in 1..n : flatten[i] = Turn(flatten, i)
    <3> HIDE DEF Turn
    <3> QED
      BY <2>1
  <2> DEFINE Bad == {i \in 1..n : flatten[i] \notin Seq(S)}
  <2>3. SUFFICES ASSUME Bad # {} PROVE FALSE
    <3>1. n \in 1..n
      BY <1>1, <1>4
    <3> QED
      BY <1>2, <1>4, <2>3, <3>1
  <2>4. PICK i \in Bad : \A j \in Bad : i <= j
    <3>1. Bad \in SUBSET Nat
      OBVIOUS
    <3> HIDE DEF Bad
    <3> QED
      BY <2>3, <3>1, LeastNat
  <2>5. i \in 1..n /\ flatten[i] \notin Seq(S)
    BY <2>4
  <2>6. i # 1
    BY <1>1, <2>2, <2>5
  <2>7. i - 1 \in 1..n /\ ~(i <= i - 1)
    BY <1>1, <2>5, <2>6
  <2>8. i - 1 \notin Bad
    <3> HIDE DEF Bad
    <3> QED
      BY <2>4, <2>7
  <2>9. flatten[i - 1] \in Seq(S)
    BY <2>7, <2>8
  <2>10. flatten[i] = flatten[i - 1] \o seqs[i]
    BY <2>2, <2>5, <2>6
  <2>11. flatten[i - 1] \o seqs[i] \in Seq(S)
    BY <1>1, <2>5, <2>9
  <2> QED
    BY <2>5, <2>10, <2>11
<1> QED
  BY <1>3, <1>4

(***************************************************************************)
(* The places of a call.                                                   *)
(***************************************************************************)

(* The places a source file may be written to. *)
PlacesOf(file) ==
  {Named(file), Real(before.target, Named(file)), Append(Front(Named(file)), file.member)}

(* What no step takes away: a link leads where it led or is none any more, a *)
(* file stays one, nothing vanishes, and no directory comes where a source   *)
(* file is to go, nor at dest.                                               *)
PlacesInv ==
  /\ DOMAIN target = DOMAIN before.target
  /\ \A path \in DOMAIN target :
       /\ target[path].kind = "link" => before.target[path].kind = "link" /\ target[path].to = before.target[path].to
       /\ before.target[path].kind = "file" => target[path].kind = "file"
       /\ target[path].kind = "none" => before.target[path].kind = "none"
       /\ target[path].text # "" => target[path].kind = "file"
  /\ \A file \in SourceFiles(before.args) : target[Named(file)].kind # "dir"
  /\ ~IntoDirectory(before.args) =>
       (target[before.args.dest].kind = "dir" <=> before.target[before.args.dest].kind = "dir")

OrdinaryCall == Ordinary(before.args, before.target)

(* Where a path leads now is the path or where it led at first. *)
LEMMA RealFacts ==
  ASSUME OrdinaryCall, PlacesInv, NEW path \in DOMAIN target
  PROVE  /\ Real(target, path) \in DOMAIN target
         /\ Real(target, path) \in {path, Real(before.target, path)}
         /\ target[path].kind # "link" => Real(target, path) = path
         /\ target[path].kind = "link" =>
              /\ before.target[path].kind = "link" /\ Real(target, path) = Real(before.target, path)
              /\ target[Real(target, path)].kind = "file"
         /\ IsDir(target, path) <=> target[path].kind = "dir"
<1>1. CASE target[path].kind = "link"
  <2>1. /\ before.target[path].kind = "link" /\ Real(target, path) = before.target[path].to
        /\ Real(before.target, path) = before.target[path].to
    BY <1>1 DEF PlacesInv, Real
  <2>2. before.target[path].to \in DOMAIN target /\ target[before.target[path].to].kind = "file"
    BY <2>1 DEF OrdinaryCall, Ordinary, LinksToFiles, PlacesInv
  <2> QED
    BY <1>1, <2>1, <2>2 DEF IsDir
<1>2. CASE target[path].kind # "link"
  BY <1>2 DEF IsDir, Real
<1> QED
  BY <1>1, <1>2

(* The same of the target as it was. *)
LEMMA RealAtFirst ==
  ASSUME OrdinaryCall, NEW path \in DOMAIN before.target
  PROVE  /\ Real(before.target, path) \in DOMAIN before.target
         /\ before.target[path].kind # "link" => Real(before.target, path) = path
         /\ before.target[path].kind = "link" =>
              /\ Real(before.target, path) = before.target[path].to
              /\ before.target[Real(before.target, path)].kind = "file"
         /\ IsDir(before.target, path) <=> before.target[path].kind = "dir"
  BY DEF OrdinaryCall, Ordinary, LinksToFiles, Real, IsDir

(* A path without its last name. *)
LEMMA FrontLength ==
  ASSUME NEW S, NEW s \in Seq(S), Len(s) > 0
  PROVE  Front(s) \in Seq(S) /\ Len(Front(s)) = Len(s) - 1
<1>1. PICK n \in Nat : n = Len(s) - 1
  OBVIOUS
<1>2. \A i \in 1..n : s[i] \in S
  <2>1. \A i \in 1..n : i \in 1..Len(s)
    BY <1>1
  <2> QED
    BY <2>1
<1>3. SubSeq(s, 1, n) \in Seq(S) /\ Len(SubSeq(s, 1, n)) = IF 1 <= n THEN n - 1 + 1 ELSE 0
  BY <1>2, SubSeqProperties
<1>4. (IF 1 <= n THEN n - 1 + 1 ELSE 0) = n
  OBVIOUS
<1>5. Front(s) = SubSeq(s, 1, n)
  BY <1>1 DEF Front
<1> QED
  BY <1>1, <1>3, <1>4, <1>5

(* A path in a directory is not the directory. *)
LEMMA LongerPaths ==
  ASSUME NEW path \in Seq(STRING), NEW rel \in Seq(STRING) \ {<<>>}, NEW member \in STRING
  PROVE  path \o rel # path /\ Append(Front(path \o rel), member) # path
<1>1. path \o rel \in Seq(STRING) /\ Len(path \o rel) = Len(path) + Len(rel) /\ Len(path) \in Nat /\ Len(rel) \in Nat
  OBVIOUS
<1>2. Len(rel) # 0
  OBVIOUS
<1> DEFINE s == path \o rel
<1>3. s \in Seq(STRING) /\ Len(s) \in Nat /\ Len(s) > Len(path)
  BY <1>1, <1>2
<1> HIDE DEF s
<1>4. Front(s) \in Seq(STRING) /\ Len(Front(s)) = Len(s) - 1
  BY <1>1, <1>3, FrontLength
<1>5. Len(Append(Front(s), member)) = Len(s)
  <2>1. Len(Append(Front(s), member)) = Len(Front(s)) + 1
    BY <1>4, AppendProperties
  <2> QED
    BY <1>3, <1>4, <2>1
<1>6. Len(s) # Len(path)
  BY <1>1, <1>3
<1>7. s # path /\ Append(Front(s), member) # path
  BY <1>5, <1>6
<1> QED
  BY <1>7 DEF s

(* The place of a source file is no directory, and the file has a text. *)
LEMMA NamedFacts ==
  ASSUME OrdinaryCall, PlacesInv, NEW file \in SourceFiles(before.args)
  PROVE  /\ Named(file) \in DOMAIN target /\ Named(file) \in DOMAIN before.target
         /\ target[Named(file)].kind # "dir" /\ before.target[Named(file)].kind # "dir"
         /\ file.text # ""
         /\ Named(file) = IF IntoDirectory(before.args) \/ IsDir(before.target, before.args.dest)
                          THEN before.args.dest \o file.rel ELSE before.args.dest
  BY DEF OrdinaryCall, Ordinary, PlacesAreFiles, WellFormed, PlacesInv, Named, Place

(* dest is none of them, where it is a directory. *)
LEMMA DestIsNoPlace ==
  ASSUME OrdinaryCall, IsDir(before.target, before.args.dest), NEW file \in SourceFiles(before.args)
  PROVE  before.args.dest \notin PlacesOf(file)
<1> DEFINE dir == before.args.dest
<1>1. /\ dir \in DOMAIN before.target /\ dir \in Seq(STRING)
      /\ file.rel \in Seq(STRING) \ {<<>>} /\ file.member \in STRING
  BY DEF OrdinaryCall, Ordinary, PlacesAreFiles, WellFormed
<1>2. Named(file) = dir \o file.rel /\ Named(file) \in DOMAIN before.target
  BY DEF OrdinaryCall, Ordinary, PlacesAreFiles, Named, Place
<1>3. before.target[dir].kind = "dir"
  BY <1>1, RealAtFirst
<1>4. Named(file) # dir /\ Append(Front(Named(file)), file.member) # dir
  BY <1>1, <1>2, LongerPaths
<1>5. Real(before.target, Named(file)) # dir
  <2> HIDE DEF dir
  <2>1. CASE before.target[Named(file)].kind = "link"
    <3>1. before.target[Real(before.target, Named(file))].kind = "file"
      BY <1>2, <2>1, RealAtFirst
    <3> QED
      BY <1>3, <3>1
  <2>2. CASE before.target[Named(file)].kind # "link"
    BY <1>2, <1>4, <2>2, RealAtFirst
  <2> QED
    BY <2>1, <2>2
<1> QED
  BY <1>4, <1>5 DEF PlacesOf

(***************************************************************************)
(* What a module writes.                                                   *)
(***************************************************************************)

(* Two entries that differ in the mode at most. *)
Alike(e, f) == e.kind = f.kind /\ e.text = f.text /\ e.to = f.to

(* Files are written at some spots, and directories made on some ways. *)
Writes(fs, gs, spots, ways) ==
  /\ DOMAIN gs = DOMAIN fs
  /\ \A path \in DOMAIN fs :
       \/ Alike(gs[path], fs[path])
       \/ path \in spots /\ gs[path].kind = "file"
       \/ fs[path] = Nothing /\ Alike(gs[path], Directory) /\ \E way \in ways : IsStrictPrefix(path, way)

(* The names of main for where it puts a file. *)
Joined(file) == IF slash /\ ~args.remote_src THEN dest \o file.rel ELSE dest
Made(file) == IF slash /\ ~args.remote_src THEN MakeDirs(target, Joined(file)) ELSE target
Followed(file) == IF args.follow THEN Real(Made(file), Joined(file)) ELSE Joined(file)
At(file) == IF IsDir(Made(file), Followed(file)) THEN Followed(file) \o file.rel ELSE Followed(file)
Dirname(file) == IF slash /\ At(file) = dest THEN dest ELSE Front(At(file))
Differing(file) ==
  Made(file)[Real(Made(file), At(file))].text # file.text \/ Made(file)[At(file)].kind # "file"
Unlinked(file) == Unlink(Made(file), At(file), file)
WithMode(file, mode) ==
  IF args.decompress THEN Made(file)
  ELSE [Made(file) EXCEPT ![At(file)].mode = ModeAfter(Made(file), At(file), mode)]

Skips(file) == Exists(Made(file), Joined(file)) /\ ~args.force
MayWrite(file) == ~Skips(file) /\ IsDir(Made(file), Dirname(file))

Ways(file) == IF slash /\ ~args.remote_src THEN {Joined(file)} ELSE {}
Spots(file) ==
  IF ~MayWrite(file) THEN {}
  ELSE {At(file)} \cup (IF args.decompress THEN {Append(Front(At(file)), file.member)} ELSE {})

(* What can come of a module. *)
LEMMA ModuleCases ==
  ASSUME NEW file, NEW mode, NEW outcome \in ModuleOutcomes(file, mode)
  PROVE  \/ outcome = Outcome(TRUE, FALSE, target) \/ outcome = Outcome(TRUE, FALSE, Made(file))
         \/ Skips(file) /\ outcome = Outcome(FALSE, FALSE, Made(file))
         \/ /\ MayWrite(file) /\ Differing(file)
            /\ \/ args.check_mode /\ outcome = Outcome(FALSE, TRUE, Made(file))
               \/ \E fs \in FailedWrites(Unlinked(file), At(file), file) : outcome = Outcome(TRUE, FALSE, fs)
               \/ outcome = Outcome(FALSE, TRUE, Moved(Unlinked(file), At(file), file, mode))
         \/ /\ MayWrite(file) /\ ~Differing(file)
            /\ \/ args.check_mode /\ outcome = Outcome(FALSE, FALSE, Made(file))
               \/ \E has_changed \in BOOLEAN :
                    /\ has_changed <=> WithMode(file, mode) # Made(file)
                    /\ outcome = Outcome(FALSE, has_changed, WithMode(file, mode))
<1>1. PICK has_changed \in BOOLEAN : has_changed = (WithMode(file, mode) # Made(file))
  OBVIOUS
<1> QED
  BY <1>1 DEF ModuleOutcomes, Joined, Made, Followed, At, Dirname, Differing, Unlinked, WithMode, Skips, MayWrite

(* Directories are made above a path. *)
LEMMA MakeDirsWrites ==
  ASSUME NEW fs, NEW path
  PROVE  Writes(fs, MakeDirs(fs, path), {}, {path})
BY DEF Writes, MakeDirs, Alike

(* A file is written. *)
LEMMA FileWrites ==
  ASSUME NEW fs, NEW path, NEW text, NEW mode
  PROVE  Writes(fs, [fs EXCEPT ![path] = File(text, mode)], {path}, {})
BY DEF Writes, Alike, File, Entry

(* A mode is no text. *)
LEMMA ModeWrites ==
  ASSUME NEW fs, IsFiles(fs), NEW path, NEW mode
  PROVE  Writes(fs, [fs EXCEPT ![path].mode = mode], {}, {})
<1> DEFINE gs == [fs EXCEPT ![path].mode = mode]
<1>1. DOMAIN gs = DOMAIN fs
  OBVIOUS
<1>2. \A p \in DOMAIN fs : gs[p] = fs[p] \/ gs[p] = [fs[p] EXCEPT !.mode = mode]
  OBVIOUS
<1>3. \A p \in DOMAIN fs : Alike([fs[p] EXCEPT !.mode = mode], fs[p])
  <2> TAKE p \in DOMAIN fs
  <2> DEFINE e == fs[p]
  <2>1. e = [kind |-> e.kind, text |-> e.text, mode |-> e.mode, to |-> e.to]
    BY DEF IsFiles, Entry
  <2> HIDE DEF e
  <2>2. Alike([e EXCEPT !.mode = mode], e)
    BY <2>1 DEF Alike
  <2> QED
    BY <2>2 DEF e
<1> HIDE DEF gs
<1>4. Writes(fs, gs, {}, {})
  BY <1>1, <1>2, <1>3 DEF Writes, Alike
<1> QED
  BY <1>4 DEF gs

(* Nothing is written, and one change after the other. *)
LEMMA WritesNothing ==
  ASSUME NEW fs, NEW spots, NEW ways
  PROVE  Writes(fs, fs, spots, ways)
BY DEF Writes, Alike

(* One after the other. *)
LEMMA WritesTwice ==
  ASSUME NEW fs, NEW gs, NEW hs, NEW spots, NEW ways, Writes(fs, gs, {}, ways), Writes(gs, hs, spots, {})
  PROVE  Writes(fs, hs, spots, ways)
<1> SUFFICES ASSUME NEW path \in DOMAIN fs
             PROVE  \/ Alike(hs[path], fs[path])
                    \/ path \in spots /\ hs[path].kind = "file"
                    \/ fs[path] = Nothing /\ Alike(hs[path], Directory) /\ \E way \in ways : IsStrictPrefix(path, way)
  BY DEF Writes
<1> QED
  BY DEF Writes, Alike

(* More spots than are needed. *)
LEMMA WritesMore ==
  ASSUME NEW fs, NEW gs, NEW few, NEW spots, NEW ways, Writes(fs, gs, few, ways), few \subseteq spots
  PROVE  Writes(fs, gs, spots, ways)
BY DEF Writes

(* A module writes to its spots and makes directories on its ways. *)
LEMMA ModuleWrites ==
  ASSUME IsFiles(target), NEW file, NEW mode, NEW outcome \in ModuleOutcomes(file, mode)
  PROVE  Writes(target, outcome.target, Spots(file), Ways(file))
<1> DEFINE made == Made(file)
           at == At(file)
           unlinked == Unlinked(file)
           moved == Moved(unlinked, at, file, mode)
           failed == FailedWrites(unlinked, at, file)
<1>1. Writes(target, made, {}, Ways(file)) /\ IsFiles(made)
  <2>1. CASE slash /\ ~args.remote_src
    <3>1. made = MakeDirs(target, Joined(file)) /\ Ways(file) = {Joined(file)}
      BY <2>1 DEF Made, Ways
    <3> HIDE DEF made
    <3>2. IsFiles(MakeDirs(target, Joined(file)))
      BY MakeDirsKeeps DEF TextsKept, NoNewLink
    <3> QED
      BY <3>1, <3>2, MakeDirsWrites
  <2>2. CASE ~(slash /\ ~args.remote_src)
    BY <2>2, WritesNothing DEF Made, Ways
  <2> QED
    BY <2>1, <2>2
<1>2. MayWrite(file) => at \in Spots(file)
  BY DEF Spots
<1>3. MayWrite(file) => Writes(made, unlinked, Spots(file), {})
  <2> HIDE DEF made, at
  <2> SUFFICES ASSUME MayWrite(file) PROVE Writes(made, Unlink(made, at, file), Spots(file), {})
    BY DEF Unlinked, made, at
  <2> DEFINE emptied == [made EXCEPT ![at] = File("", "default")]
  <2>1. Writes(made, emptied, {at}, {})
    BY FileWrites
  <2>2. Unlink(made, at, file) = emptied \/ Unlink(made, at, file) = made
    BY DEF Unlink
  <2> HIDE DEF emptied
  <2>3. {at} \subseteq Spots(file)
    BY <1>2
  <2>4. Writes(made, emptied, Spots(file), {}) /\ Writes(made, made, Spots(file), {})
    BY <2>1, <2>3, WritesMore, WritesNothing
  <2> QED
    BY <2>2, <2>4
<1>4. MayWrite(file) => \A fs \in {moved} \cup failed : Writes(unlinked, fs, Spots(file), {})
  <2> SUFFICES ASSUME MayWrite(file), NEW fs \in {moved} \cup failed PROVE Writes(unlinked, fs, Spots(file), {})
    OBVIOUS
  <2> DEFINE member == Append(Front(at), file.member)
  <2>0. at \in Spots(file) /\ (args.decompress => member \in Spots(file))
    BY DEF Spots
  <2> HIDE DEF at, unlinked
  <2>1. \/ fs = unlinked
        \/ \E other : fs = [unlinked EXCEPT ![at] = File(file.text, other)]
        \/ args.decompress /\ \E text : fs = [unlinked EXCEPT ![member] = File(text, "default")]
    BY DEF Moved, FailedWrites
  <2> HIDE DEF member
  <2>2. ASSUME NEW path \in Spots(file), NEW text, NEW other
        PROVE  Writes(unlinked, [unlinked EXCEPT ![path] = File(text, other)], Spots(file), {})
    <3>1. {path} \subseteq Spots(file)
      OBVIOUS
    <3>2. Writes(unlinked, [unlinked EXCEPT ![path] = File(text, other)], {path}, {})
      BY FileWrites
    <3> QED BY <3>1, <3>2, WritesMore
  <2> QED
    BY <2>0, <2>1, <2>2, WritesNothing
<1>5. Writes(made, WithMode(file, mode), {}, {})
  <2> HIDE DEF made
  <2> QED
    BY <1>1, ModeWrites, WritesNothing DEF WithMode, made
<1> HIDE DEF made, at, unlinked, moved, failed
<1>6. \A fs : Writes(made, fs, Spots(file), {}) => Writes(target, fs, Spots(file), Ways(file))
  BY <1>1, WritesTwice
<1>7. MayWrite(file) => \A fs \in {moved} \cup failed : Writes(made, fs, Spots(file), {})
  BY <1>3, <1>4 DEF Writes, Alike
<1>8. Writes(target, made, Spots(file), Ways(file))
  BY <1>6, WritesNothing
<1>9. Writes(target, WithMode(file, mode), Spots(file), Ways(file))
  BY <1>5, <1>6 DEF Writes
<1>10. \/ outcome.target = target
       \/ outcome.target = made
       \/ MayWrite(file) /\ outcome.target \in {moved} \cup failed
       \/ outcome.target = WithMode(file, mode)
  <2> HIDE DEF Made, At, Unlinked, WithMode
  <2>1. CASE outcome = Outcome(TRUE, FALSE, target)
    BY <2>1 DEF Outcome
  <2>2. CASE outcome = Outcome(TRUE, FALSE, Made(file))
    BY <2>2 DEF made, Outcome
  <2>8. CASE outcome = Outcome(FALSE, FALSE, Made(file))
    BY <2>8 DEF made, Outcome
  <2>3. CASE outcome = Outcome(FALSE, TRUE, Made(file))
    BY <2>3 DEF Outcome, made
  <2>4. CASE MayWrite(file) /\ \E fs \in FailedWrites(Unlinked(file), At(file), file) : outcome = Outcome(TRUE, FALSE, fs)
    BY <2>4 DEF Outcome, unlinked, at, failed
  <2>5. CASE MayWrite(file) /\ outcome = Outcome(FALSE, TRUE, Moved(Unlinked(file), At(file), file, mode))
    BY <2>5 DEF Outcome, moved, unlinked, at
  <2>6. CASE \E has_changed \in BOOLEAN : outcome = Outcome(FALSE, has_changed, WithMode(file, mode))
    <3>1. PICK has_changed \in BOOLEAN : outcome = Outcome(FALSE, has_changed, WithMode(file, mode))
      BY <2>6
    <3> QED
      BY <3>1 DEF Outcome
  <2>7. \/ outcome = Outcome(TRUE, FALSE, target)
        \/ outcome = Outcome(TRUE, FALSE, Made(file)) \/ outcome = Outcome(FALSE, FALSE, Made(file))
        \/ outcome = Outcome(FALSE, TRUE, Made(file))
        \/ MayWrite(file) /\ \E fs \in FailedWrites(Unlinked(file), At(file), file) : outcome = Outcome(TRUE, FALSE, fs)
        \/ MayWrite(file) /\ outcome = Outcome(FALSE, TRUE, Moved(Unlinked(file), At(file), file, mode))
        \/ \E has_changed \in BOOLEAN : outcome = Outcome(FALSE, has_changed, WithMode(file, mode))
    <3> HIDE DEF MayWrite
    <3> QED
      BY ModuleCases
  <2> QED
    BY <2>1, <2>2, <2>3, <2>4, <2>5, <2>6, <2>7, <2>8
<1> QED
  BY <1>6, <1>7, <1>8, <1>9, <1>10, WritesNothing

(* The file module writes nothing. *)
LEMMA FileModuleWrites ==
  ASSUME IsFiles(target), NEW file, NEW mode, NEW path, NEW outcome \in FileOutcomes(file, mode, path)
  PROVE  Writes(target, outcome.target, {}, {})
<1> DEFINE at == IF IsDir(target, path) THEN path \o file.rel ELSE path
           with_mode == IF args.check_mode THEN target ELSE [target EXCEPT ![at].mode = ModeAfter(target, at, mode)]
<1>1. PICK has_changed : outcome = Outcome(TRUE, FALSE, target) \/ outcome = Outcome(FALSE, has_changed, with_mode)
  BY DEF FileOutcomes
<1>2. Writes(target, with_mode, {}, {})
  <2> HIDE DEF at
  <2> QED
    BY ModeWrites, WritesNothing
<1>3. outcome.target = target \/ outcome.target = with_mode
  <2> HIDE DEF with_mode
  <2> QED
    BY <1>1 DEF Outcome
<1> QED
  BY <1>2, <1>3, WritesNothing

(***************************************************************************)
(* Only the places of the source files are written to.                     *)
(***************************************************************************)

(* dest is what the call says, or the file that one of the places leads to.  *)
AsCalled == dest = before.args.dest /\ (slash <=> IntoDirectory(before.args))

Drifted ==
  /\ args.follow /\ args.force /\ ~args.decompress /\ ~slash
  /\ \E k \in DOMAIN files :
       before.target[Named(files[k])].kind = "link" /\ dest = before.target[Named(files[k])].to

DestInv ==
  /\ files \in Seq(SourceFiles(before.args))
  /\ pc = "copy" => /\ AsCalled \/ Drifted
                    /\ args.remote_src => args.content /\ ~slash

MayBeWritten(path) ==
  /\ \E k \in DOMAIN Given : path \in PlacesOf(Given[k])
  /\ args.force \/ args.decompress \/ ~Exists(before.target, path)

(* An entry for nothing and one for a directory have no text. *)
LEMMA NothingAndDirectory ==
  Nothing.kind = "none" /\ Nothing.text = "" /\ Directory.kind = "dir" /\ Directory.text = ""
BY DEF Nothing, Directory, Entry

(* Nothing is taken away by writing to the places of source files. *)
LEMMA PlacesKept ==
  ASSUME OrdinaryCall, PlacesInv, before' = before,
         NEW spots, NEW ways, Writes(target, target', spots, ways),
         \A way \in ways : IntoDirectory(before.args) /\ \E file \in SourceFiles(before.args) : way = Named(file),
         \A spot \in spots : \E file \in SourceFiles(before.args) : spot \in PlacesOf(file)
  PROVE  PlacesInv'
<1> DEFINE fs == before.target
           call == before.args
           gs == target'
<1>1. \A path \in DOMAIN target :
        \/ Alike(gs[path], target[path])
        \/ path \in spots /\ gs[path].kind = "file"
        \/ /\ target[path].kind = "none" /\ gs[path].kind = "dir" /\ gs[path].text = ""
           /\ \E way \in ways : IsStrictPrefix(path, way)
  BY NothingAndDirectory DEF Writes, Alike
<1>2. DOMAIN gs = DOMAIN target /\ DOMAIN target = DOMAIN fs
  BY DEF Writes, PlacesInv
<1>3. ASSUME NEW path \in DOMAIN target
      PROVE  /\ gs[path].kind = "link" => fs[path].kind = "link" /\ gs[path].to = fs[path].to
             /\ fs[path].kind = "file" => gs[path].kind = "file"
             /\ gs[path].kind = "none" => fs[path].kind = "none"
             /\ gs[path].text # "" => gs[path].kind = "file"
  <2>1. /\ target[path].kind = "link" => fs[path].kind = "link" /\ target[path].to = fs[path].to
        /\ fs[path].kind = "file" => target[path].kind = "file"
        /\ target[path].kind = "none" => fs[path].kind = "none"
        /\ target[path].text # "" => target[path].kind = "file"
    BY DEF PlacesInv
  <2> QED
    BY <1>1, <2>1 DEF Alike
<1>4. ASSUME NEW file \in SourceFiles(call) PROVE gs[Named(file)].kind # "dir"
  <2>1. Named(file) \in DOMAIN target /\ target[Named(file)].kind # "dir"
    BY NamedFacts
  <2>2. \A way \in ways : ~IsStrictPrefix(Named(file), way)
    BY DEF OrdinaryCall, Ordinary, PlacesAreFiles, Named
  <2> QED
    BY <1>1, <2>1, <2>2 DEF Alike
<1>5. ASSUME ~IntoDirectory(call) PROVE gs[call.dest].kind = "dir" <=> fs[call.dest].kind = "dir"
  <2>1. call.dest \in DOMAIN target
    BY <1>2 DEF OrdinaryCall, Ordinary, PlacesAreFiles
  <2>2. target[call.dest].kind = "dir" <=> fs[call.dest].kind = "dir"
    BY <1>5 DEF PlacesInv
  <2>3. Alike(gs[call.dest], target[call.dest]) \/ (call.dest \in spots /\ gs[call.dest].kind = "file")
    BY <1>1, <1>5, <2>1
  <2>4. fs[call.dest].kind = "dir" => call.dest \notin spots
    BY <1>2, <2>1, RealAtFirst, DestIsNoPlace
  <2> QED
    BY <2>2, <2>3, <2>4 DEF Alike
<1>6. \A file : Named(file)' = Named(file)
  BY DEF Named
<1> QED
  BY <1>2, <1>3, <1>4, <1>5, <1>6 DEF PlacesInv

(* Nothing else is touched by it. *)
LEMMA OthersKept ==
  ASSUME OthersUntouched, DOMAIN target = DOMAIN before.target, before' = before,
         args'.force = args.force, args'.decompress = args.decompress, Given' = Given,
         NEW spots, NEW ways, Writes(target, target', spots, ways),
         \A spot \in spots : MayBeWritten(spot)
  PROVE  OthersUntouched'
<1>1. ASSUME NEW path \in DOMAIN target', target'[path].text # before.target[path].text
      PROVE  MayBeWritten(path)
  <2>1. path \in DOMAIN target
    BY DEF Writes
  <2>2. target'[path].text = target[path].text \/ path \in spots
    BY <2>1, NothingAndDirectory DEF Writes, Alike
  <2>3. target[path].text # before.target[path].text => MayBeWritten(path)
    BY <2>1 DEF OthersUntouched, MayBeWritten, PlacesOf
  <2> QED
    BY <1>1, <2>2, <2>3
<1>2. \A path : MayBeWritten(path) => MayBeWritten(path)'
  BY DEF MayBeWritten, PlacesOf, Named
<1>3. \A path \in DOMAIN target' : target'[path].text # before'.target[path].text => MayBeWritten(path)'
  BY <1>1, <1>2
<1> QED
  BY <1>3 DEF OthersUntouched, MayBeWritten, PlacesOf

(* The plugin finds a file where the call is to put it. *)
LEMMA DestFileIsNamed ==
  ASSUME OrdinaryCall, PlacesInv, AsCalled, NEW file \in SourceFiles(before.args)
  PROVE  DestFile(file) = Named(file)
<1>1. dest \in DOMAIN target /\ dest \in DOMAIN before.target
  BY DEF OrdinaryCall, Ordinary, PlacesAreFiles, PlacesInv, AsCalled
<1>2. IsDir(target, dest) <=> target[dest].kind = "dir"
  BY <1>1, RealFacts
<1>3. IsDir(before.target, dest) <=> before.target[dest].kind = "dir"
  BY <1>1, RealAtFirst
<1>4. ~IntoDirectory(before.args) => (target[dest].kind = "dir" <=> before.target[dest].kind = "dir")
  BY DEF PlacesInv, AsCalled
<1> QED
  BY <1>2, <1>3, <1>4, NamedFacts DEF AsCalled, DestFile

(* Where a module puts a file: at its place, or at what that leads to. *)
LEMMA AtIsPlace ==
  ASSUME OrdinaryCall, PlacesInv, AsCalled, slash => ~args.remote_src, NEW file \in SourceFiles(before.args)
  PROVE  /\ At(file) \in {Named(file), Real(target, Named(file))}
         /\ ~args.follow => At(file) = Named(file)
<1> DEFINE place == Named(file)
<1>0. place \in DOMAIN target /\ target[place].kind # "dir"
  BY NamedFacts
<1>1. CASE slash
  <2>1. Joined(file) = place /\ Made(file) = MakeDirs(target, place)
    BY <1>1, NamedFacts DEF AsCalled, Joined, Made
  <2> DEFINE made == MakeDirs(target, place)
  <2>2. /\ DOMAIN made = DOMAIN target
        /\ \A path \in DOMAIN target : target[path].kind # "none" => made[path] = target[path]
    BY NothingAndDirectory DEF MakeDirs
  <2>3. made[place] = target[place]
    BY <1>0 DEF MakeDirs, IsStrictPrefix
  <2>7. Joined(file) = place /\ Made(file) = made
    BY <2>1
  <2> HIDE DEF made
  <2>4. Real(made, place) = Real(target, place)
    BY <2>3 DEF Real
  <2> HIDE DEF place
  <2>5. CASE target[place].kind = "link"
    <3> DEFINE to == Real(target, place)
    <3>1. to \in DOMAIN target /\ target[to].kind = "file"
      BY <1>0, <2>5, RealFacts
    <3> HIDE DEF to
    <3>2. made[to].kind = "file" /\ Real(made, to) = to
      BY <2>2, <3>1 DEF Real
    <3>3. ~IsDir(made, place) /\ ~IsDir(made, to)
      BY <2>4, <3>2 DEF IsDir, to
    <3>4. Followed(file) = place \/ (args.follow /\ Followed(file) = to)
      BY <2>4, <2>7 DEF Followed, to
    <3>5. At(file) = Followed(file)
      BY <2>7, <3>3, <3>4 DEF At
    <3>6. args.follow \/ Followed(file) = place
      BY <2>7 DEF Followed
    <3> QED
      BY <3>4, <3>5, <3>6 DEF to, place
  <2>6. CASE target[place].kind # "link"
    <3>1. Real(made, place) = place /\ ~IsDir(made, place)
      BY <1>0, <2>3, <2>6 DEF Real, IsDir
    <3>2. Followed(file) = place
      BY <2>7, <3>1 DEF Followed
    <3>3. At(file) = place
      BY <2>7, <3>1, <3>2 DEF At
    <3> QED
      BY <3>3 DEF place
  <2> QED
    BY <2>5, <2>6
<1>2. CASE ~slash
  <2>1. Joined(file) = dest /\ Made(file) = target /\ dest \in DOMAIN target
    BY <1>2 DEF Joined, Made, OrdinaryCall, Ordinary, PlacesAreFiles, PlacesInv, AsCalled
  <2>2. place = IF IsDir(target, dest) THEN dest \o file.rel ELSE dest
    BY <1>2, DestFileIsNamed DEF DestFile
  <2> HIDE DEF place
  <2>3. CASE IsDir(target, dest)
    <3>1. target[dest].kind # "link"
      BY <2>1, <2>3, RealFacts
    <3>2. Followed(file) = dest
      BY <2>1, <3>1 DEF Followed, Real
    <3> QED
      BY <2>1, <2>2, <2>3, <3>2 DEF At, place
  <2>4. CASE ~IsDir(target, dest)
    <3>1. place = dest
      BY <2>2, <2>4
    <3>2. ~IsDir(target, Real(target, dest))
      <4>1. Real(target, dest) \in DOMAIN target
        BY <2>1, RealFacts
      <4>2. target[Real(target, dest)].kind # "dir"
        BY <2>1, <2>4, RealFacts DEF IsDir
      <4> QED
        BY <4>1, <4>2, RealFacts
    <3> QED
      BY <2>1, <2>4, <3>1, <3>2 DEF At, Followed, place
  <2> QED
    BY <2>3, <2>4
<1> QED
  BY <1>1, <1>2

(* A file of the list is a source file. *)
LEMMA FilesAreSources ==
  ASSUME DestInv, NEW k \in DOMAIN files
  PROVE  files[k] \in SourceFiles(before.args)
BY DEF DestInv

(* The next file of the list is a source file. *)
LEMMA TheNextFile ==
  ASSUME CallInv, DestInv, TheNext
  PROVE  /\ next \in DOMAIN files /\ files[next] \in SourceFiles(before.args)
         /\ Given = files /\ next \in Nat /\ Len(files) \in Nat
<1>1. Len(files) \in Nat /\ DOMAIN files = 1..Len(files)
  BY DEF DestInv
<1>2. next \in Nat /\ next # 0 /\ next <= Len(files)
  BY DEF CallInv, PhaseInv, TheNext
<1>3. next \in DOMAIN files
  BY <1>1, <1>2
<1>4. args.remote_src => args.content
  BY DEF DestInv, TheNext
<1> QED
  BY <1>1, <1>2, <1>3, <1>4, FilesAreSources DEF Given

(* Once dest has moved it is a file, and every file goes there. *)
LEMMA DriftedFacts ==
  ASSUME OrdinaryCall, PlacesInv, DestInv, Drifted, NEW file
  PROVE  /\ dest \in DOMAIN target /\ target[dest].kind = "file"
         /\ \E k \in DOMAIN files : dest = Real(before.target, Named(files[k]))
         /\ DestFile(file) = dest /\ Real(target, dest) = dest
         /\ At(file) = dest /\ Ways(file) = {} /\ Made(file) = target /\ Joined(file) = dest
<1>1. PICK k \in DOMAIN files :
        before.target[Named(files[k])].kind = "link" /\ dest = before.target[Named(files[k])].to
  BY DEF Drifted
<1>2. Named(files[k]) \in DOMAIN before.target
  BY FilesAreSources, NamedFacts
<1>3. dest = Real(before.target, Named(files[k])) /\ before.target[dest].kind = "file" /\ dest \in DOMAIN before.target
  BY <1>1, <1>2, RealAtFirst
<1>4. dest \in DOMAIN target /\ target[dest].kind = "file"
  BY <1>3 DEF PlacesInv
<1>5. Real(target, dest) = dest /\ ~IsDir(target, dest)
  BY <1>4 DEF Real, IsDir
<1>6. ~slash
  BY DEF Drifted
<1>7. Made(file) = target /\ Joined(file) = dest
  BY <1>6 DEF Made, Joined
<1>8. Followed(file) = dest
  BY <1>5, <1>7 DEF Followed
<1>9. At(file) = dest
  BY <1>5, <1>7, <1>8 DEF At
<1> QED
  BY <1>3, <1>4, <1>5, <1>6, <1>7, <1>9 DEF Ways, DestFile

(* Where a module and a raw file are written. *)
LEMMA SpotsAreNamed ==
  ASSUME CallInv, OrdinaryCall, PlacesInv, DestInv, ToCopy, NEW spot,
         spot \in Spots(files[next]) \/ spot = Real(target, DestFile(files[next]))
  PROVE  MayBeWritten(spot)
<1> DEFINE file == files[next]
<1>1. /\ pc = "copy" /\ next \in DOMAIN files /\ file \in SourceFiles(before.args) /\ Given = files
      /\ Exists(target, DestFile(file)) => args.force
  BY TheNextFile DEF ToCopy, TheNext, Taken
<1> HIDE DEF file
<1>2. CASE AsCalled
  <2>1. slash => ~args.remote_src
    BY <1>1 DEF DestInv
  <2>2. /\ DestFile(file) = Named(file)
        /\ At(file) \in {Named(file), Real(target, Named(file))}
        /\ ~args.follow => At(file) = Named(file)
        /\ Named(file) \in DOMAIN target /\ Named(file) \in DOMAIN before.target
    BY <1>1, <1>2, <2>1, DestFileIsNamed, AtIsPlace, NamedFacts
  <2>3. /\ Real(target, Named(file)) \in {Named(file), Real(before.target, Named(file))}
        /\ target[Named(file)].kind # "link" => Real(target, Named(file)) = Named(file)
        /\ target[Named(file)].kind = "link" => before.target[Named(file)].kind = "link"
    BY <2>2, RealFacts
  <2>4. args.follow /\ args.decompress => target[Named(file)].kind # "link"
    BY <1>1, <2>3, SameCall DEF OrdinaryCall, Ordinary, NothingOdd, Named
  <2>5. args.decompress => At(file) = Named(file)
    BY <2>2, <2>3, <2>4
  <2>6. \/ spot \in {At(file), Real(target, Named(file))}
        \/ args.decompress /\ spot = Append(Front(At(file)), file.member)
    BY <2>2 DEF Spots, file
  <2>7. spot \in PlacesOf(file)
    BY <2>2, <2>3, <2>5, <2>6 DEF PlacesOf
  <2>8. args.force \/ args.decompress \/ ~Exists(before.target, spot)
    <3> SUFFICES ASSUME ~args.force, ~args.decompress PROVE ~Exists(before.target, spot)
      OBVIOUS
    <3>1. target[Named(file)].kind = "none"
      BY <1>1, <2>2 DEF Exists
    <3>2. spot = Named(file)
      BY <2>2, <2>3, <2>6, <3>1
    <3> QED
      BY <2>2, <3>1, <3>2 DEF PlacesInv, Exists
  <2> QED
    BY <1>1, <2>7, <2>8 DEF MayBeWritten, file
<1>3. CASE Drifted
  <2>1. args.force /\ ~args.decompress
    BY <1>3 DEF Drifted
  <2>2. /\ \E k \in DOMAIN files : dest = Real(before.target, Named(files[k]))
        /\ DestFile(file) = dest /\ Real(target, dest) = dest /\ At(file) = dest
    BY <1>3, DriftedFacts
  <2>3. spot = dest
    BY <2>1, <2>2 DEF Spots, file
  <2> QED
    BY <1>1, <2>1, <2>2, <2>3 DEF MayBeWritten, PlacesOf
<1> QED
  BY <1>1, <1>2, <1>3 DEF DestInv

(* Directories are made above the place of the next file only. *)
LEMMA WaysAreNamed ==
  ASSUME CallInv, OrdinaryCall, PlacesInv, DestInv, TheNext, NEW way \in Ways(files[next])
  PROVE  IntoDirectory(before.args) /\ way = Named(files[next])
<1>1. files[next] \in SourceFiles(before.args)
  BY TheNextFile
<1>2. slash /\ way = Joined(files[next]) /\ Joined(files[next]) = dest \o files[next].rel
  BY DEF Ways, Joined
<1>3. AsCalled
  BY <1>2 DEF DestInv, Drifted, TheNext
<1> QED
  BY <1>1, <1>2, <1>3, NamedFacts DEF AsCalled

(* The same of a file that is on the target already. *)
LEMMA RemoteSpots ==
  ASSUME CallInv, OrdinaryCall, PlacesInv, pc = "list", args.remote_src, ~args.content,
         NEW file, file = args.sources[1].files[1]
  PROVE  /\ file \in SourceFiles(before.args) /\ Ways(file) = {}
         /\ \A spot \in Spots(file) : MayBeWritten(spot)
<1>1. /\ args = before.args /\ target = before.target /\ dest = args.dest /\ slash = args.slash
      /\ args.sources # <<>>
  <2>1. args.content \in BOOLEAN /\ ~ArgsRefused
    BY SameCall DEF IsCall, CallInv, PhaseInv
  <2>2. args.sources # <<>>
    BY <2>1 DEF ArgsRefused
  <2> QED
    BY <2>2 DEF CallInv, ArgsInv, PhaseInv
<1>2. /\ args.sources \in Seq(Range(args.sources))
      /\ \A k \in DOMAIN args.sources :
           /\ ~args.sources[k].dir /\ Len(args.sources[k].files) = 1
           /\ args.sources[k].files \in Seq(Range(args.sources[k].files))
  BY <1>1 DEF OrdinaryCall, Ordinary, WellFormed, NothingOdd
<1>3. 1 \in DOMAIN args.sources
  BY <1>1, <1>2
<1>4. file \in SourceFiles(before.args)
  <2>1. 1 \in DOMAIN args.sources[1].files
    BY <1>2, <1>3
  <2>2. file \in Range(args.sources[1].files)
    BY <2>1 DEF Range
  <2>3. FilesOf(args.sources[1]) = args.sources[1].files
    BY <1>2, <1>3 DEF FilesOf
  <2> QED
    BY <1>1, <1>3, <2>2, <2>3 DEF SourceFiles
<1>5. Given = <<file>>
  BY DEF Given
<1>6. /\ Joined(file) = dest /\ Made(file) = target /\ Ways(file) = {}
      /\ dest \in DOMAIN target /\ Named(file) \in DOMAIN target
  BY <1>1, <1>4, NamedFacts DEF Joined, Made, Ways, OrdinaryCall, Ordinary, PlacesAreFiles
<1>7. Named(file) = IF slash \/ IsDir(target, dest) THEN dest \o file.rel ELSE dest
  BY <1>1, <1>2, <1>4, NamedFacts DEF IntoDirectory
<1>8. ASSUME NEW spot \in Spots(file)
      PROVE  spot \in PlacesOf(file) /\ (args.force \/ args.decompress \/ ~Exists(before.target, spot))
  <2>1. MayWrite(file) /\ (spot = At(file) \/ (args.decompress /\ spot = Append(Front(At(file)), file.member)))
    BY <1>8 DEF Spots
  <2>2. args.force \/ target[dest].kind = "none"
    BY <1>6, <2>1 DEF MayWrite, Skips, Exists
  <2>3. args.follow /\ args.decompress => target[Named(file)].kind # "link"
    BY <1>1, <1>4 DEF OrdinaryCall, Ordinary, NothingOdd, Named
  <2>4. /\ Real(target, dest) \in DOMAIN target
        /\ target[dest].kind # "link" => Real(target, dest) = dest
        /\ target[dest].kind = "link" => target[Real(target, dest)].kind = "file"
        /\ IsDir(target, dest) <=> target[dest].kind = "dir"
    BY <1>6, RealFacts
  <2>5. CASE IsDir(target, dest)
    <3>1. Followed(file) = dest /\ target[dest].kind = "dir"
      BY <1>6, <2>4, <2>5 DEF Followed
    <3>2. At(file) = Named(file)
      BY <1>6, <1>7, <2>5, <3>1 DEF At
    <3> QED
      BY <2>1, <2>2, <3>1, <3>2 DEF PlacesOf
  <2>6. CASE ~IsDir(target, dest)
    <3>1. ~IsDir(target, Real(target, dest))
      <4>1. target[Real(target, dest)].kind # "dir"
        BY <2>4, <2>6
      <4> QED
        BY <2>4, <4>1, RealFacts
    <3>2. At(file) = dest \/ (args.follow /\ At(file) = Real(target, dest))
      BY <1>6, <2>6, <3>1 DEF At, Followed
    <3>3. ~slash
      <4> SUFFICES ASSUME slash PROVE FALSE
        OBVIOUS
      <4>1. target[dest].kind # "link"
        BY <1>1 DEF OrdinaryCall, Ordinary, NothingOdd
      <4>2. Dirname(file) = dest
        BY <2>4, <3>2, <4>1 DEF Dirname
      <4> QED
        BY <1>6, <2>1, <2>6, <4>2 DEF MayWrite
    <3>4. Named(file) = dest
      BY <1>7, <2>6, <3>3
    <3>5. args.decompress => At(file) = dest
      BY <2>3, <2>4, <3>2, <3>4
    <3>6. spot \in PlacesOf(file)
      BY <1>1, <2>1, <3>2, <3>4, <3>5 DEF PlacesOf
    <3>7. args.force \/ args.decompress \/ (spot = dest /\ target[dest].kind = "none")
      BY <2>1, <2>2, <2>4, <3>2
    <3> QED
      BY <1>1, <3>6, <3>7 DEF Exists
  <2> QED
    BY <2>5, <2>6
<1> QED
  BY <1>4, <1>5, <1>6, <1>8 DEF MayBeWritten

(* All a step does to the target. *)
StepWrites ==
  \E spots, ways :
    /\ Writes(target, target', spots, ways)
    /\ \A way \in ways : IntoDirectory(before.args) /\ \E file \in SourceFiles(before.args) : way = Named(file)
    /\ \A spot \in spots : MayBeWritten(spot)
    /\ \A k \in DOMAIN Given : spots # {} => Given[k] \in SourceFiles(before.args)

(* Each step changes nothing before the files are listed, or writes so. *)
LEMMA NextWrites ==
  ASSUME CallInv, OrdinaryCall, PlacesInv, DestInv, IsFiles(target), [Next]_vars
  PROVE  \/ target' = target /\ pc \in {"check", "list"}
         \/ files' = files /\ StepWrites
<1> USE DEF vars, state, Return
(* Nothing is written. *)
<1>a. ASSUME files' = files, target' = target PROVE files' = files /\ StepWrites
  <2>1. Writes(target, target', {}, {})
    BY <1>a, WritesNothing
  <2> QED
    BY <1>a, <2>1 DEF StepWrites
(* One file is written for the next of the list. *)
<1>b. ASSUME ToCopy, files' = files, NEW spots, NEW ways, Writes(target, target', spots, ways),
             \A way \in ways : way \in Ways(files[next]),
             \A spot \in spots : spot \in Spots(files[next]) \/ spot = Real(target, DestFile(files[next]))
      PROVE  files' = files /\ StepWrites
  <2>1. \A spot \in spots : MayBeWritten(spot)
    BY <1>b, SpotsAreNamed
  <2>2. Given = files /\ files[next] \in SourceFiles(before.args)
    BY <1>b, TheNextFile DEF ToCopy
  <2>3. \A way \in ways : IntoDirectory(before.args) /\ way = Named(files[next])
    BY <1>b, WaysAreNamed DEF ToCopy
  <2>4. \A k \in DOMAIN Given : Given[k] \in SourceFiles(before.args)
    BY <2>2, FilesAreSources
  <2> QED
    BY <1>b, <2>1, <2>2, <2>3, <2>4 DEF StepWrites
<1>1. CASE CheckArgs
  BY <1>1 DEF CheckArgs
<1>2. CASE MakeTempfile
  BY <1>2 DEF MakeTempfile
<1>3. CASE RemoteSrc
  <2> DEFINE file == args.sources[1].files[1]
  <2>0. pc = "list" /\ args.remote_src /\ ~args.content
    BY <1>3 DEF RemoteSrc
  <2>1. PICK outcome \in ModuleOutcomes(file, args.mode) : target' = outcome.target
    BY <1>3 DEF RemoteSrc
  <2>2. Given = <<file>> /\ files' = files
    BY <1>3 DEF RemoteSrc, Given
  <2> HIDE DEF file
  <2>3. Writes(target, target', Spots(file), Ways(file))
    BY <2>1, ModuleWrites
  <2>4. /\ file \in SourceFiles(before.args) /\ Ways(file) = {}
        /\ \A spot \in Spots(file) : MayBeWritten(spot)
    BY <2>0, RemoteSpots DEF file
  <2>5. \A k \in DOMAIN Given : Given[k] \in SourceFiles(before.args)
    BY <2>2, <2>4
  <2> QED
    BY <2>2, <2>3, <2>4, <2>5 DEF StepWrites
<1>4. CASE ListFiles
  BY <1>4 DEF ListFiles
<1>5. CASE SourceMissing
  BY <1>5, <1>a DEF SourceMissing
<1>6. CASE ConnectionBreaks
  <2>1. CASE UNCHANGED target
    BY <1>6, <1>a, <2>1 DEF ConnectionBreaks
  <2>2. CASE ~UNCHANGED target
    <3> DEFINE at == Real(target, DestFile(files[next]))
    <3>1. ToCopy /\ files' = files /\ target' = [target EXCEPT ![at] = File("torn", "default")]
      BY <1>6, <2>2 DEF ConnectionBreaks
    <3>2. Writes(target, target', {at}, {})
      BY <3>1, FileWrites
    <3> QED
      BY <1>b, <3>1, <3>2
  <2> QED
    BY <2>1, <2>2
<1>7. CASE ContentToDirectory
  BY <1>7, <1>a DEF ContentToDirectory
<1>8. CASE PassOver
  BY <1>8, <1>a DEF PassOver, Continue
<1>9. CASE CheckOnly
  BY <1>9, <1>a DEF CheckOnly, Continue
<1>10. CASE SendRaw
  <2>1. CASE UNCHANGED target
    BY <1>10, <1>a, <2>1 DEF SendRaw, Continue
  <2>2. CASE ~UNCHANGED target
    <3> DEFINE at == Real(target, DestFile(files[next]))
    <3>1. ToCopy /\ files' = files /\ \E text, mode : target' = [target EXCEPT ![at] = File(text, mode)]
      BY <1>10, <2>2 DEF SendRaw, Continue
    <3>2. PICK text, mode : target' = [target EXCEPT ![at] = File(text, mode)]
      BY <3>1
    <3> HIDE DEF at
    <3>3. Writes(target, [target EXCEPT ![at] = File(text, mode)], {at}, {})
      BY FileWrites
    <3>4. Writes(target, target', {at}, {})
      BY <3>2, <3>3
    <3> QED
      BY <1>b, <3>1, <3>4 DEF at
  <2> QED
    BY <2>1, <2>2
<1>11. CASE RunModule
  <2> DEFINE file == files[next]
  <2>1. PICK outcome \in ModuleOutcomes(file, ModeOf(file)) : ModuleReturned(file, TRUE, outcome)
    BY <1>11 DEF RunModule
  <2>2. ToCopy /\ files' = files /\ target' = outcome.target
    BY <1>11, <2>1 DEF RunModule, ModuleReturned
  <2> HIDE DEF file
  <2>3. Writes(target, target', Spots(file), Ways(file))
    BY <2>2, ModuleWrites
  <2> QED
    BY <1>b, <2>2, <2>3 DEF file
<1>12. CASE RunFile
  <2> DEFINE file == files[next]
  <2>0. PICK path : \E outcome \in FileOutcomes(file, ModeOf(file), path) : ModuleReturned(file, changed, outcome)
    BY <1>12 DEF RunFile
  <2>1. PICK outcome \in FileOutcomes(file, ModeOf(file), path) : ModuleReturned(file, changed, outcome)
    BY <2>0
  <2>2. ToCopy /\ files' = files /\ target' = outcome.target
    BY <1>12, <2>1 DEF RunFile, ModuleReturned
  <2> HIDE DEF file
  <2>3. Writes(target, target', {}, {})
    BY <2>1, <2>2, FileModuleWrites
  <2> QED
    BY <1>b, <2>2, <2>3
<1>13. CASE Finish
  BY <1>13, <1>a DEF Finish
<1>14. CASE Done \/ UNCHANGED vars
  BY <1>14, <1>a DEF Done
<1> QED
  BY <1>1, <1>2, <1>3, <1>4, <1>5, <1>6, <1>7, <1>8, <1>9, <1>10, <1>11, <1>12, <1>13, <1>14 DEF Next

(* Where dest leads, when the files are listed. *)
LEMMA SourceFilesListed ==
  ASSUME OrdinaryCall, NEW call, call = before.args, ~call.content
  PROVE  FlattenSeq([k \in DOMAIN call.sources |-> FilesOf(call.sources[k])]) \in Seq(SourceFiles(call))
<1> DEFINE S == SourceFiles(call)
           seqs == [k \in DOMAIN call.sources |-> FilesOf(call.sources[k])]
<1>1. /\ call.sources \in Seq(Range(call.sources))
      /\ \A k \in DOMAIN call.sources :
           /\ call.sources[k].files \in Seq(Range(call.sources[k].files))
           /\ call.sources[k].sub \in Seq(Range(call.sources[k].sub))
  BY DEF OrdinaryCall, Ordinary, WellFormed
<1>2. ASSUME NEW k \in DOMAIN call.sources PROVE FilesOf(call.sources[k]) \in Seq(S)
  <2> DEFINE s == FilesOf(call.sources[k])
             R == Range(call.sources[k].files) \cup Range(call.sources[k].sub)
  <2>1. call.sources[k].files \in Seq(R) /\ call.sources[k].sub \in Seq(R)
    <3>1. \A A, B : A \subseteq B => Seq(A) \subseteq Seq(B)
      OBVIOUS
    <3> QED
      BY <1>1, <1>2, <3>1
  <2>2. s \in Seq(R)
    <3> HIDE DEF R
    <3> QED
      BY <2>1 DEF FilesOf
  <2>3. Range(s) \subseteq S
    BY <1>2 DEF SourceFiles
  <2> HIDE DEF s, R, S
  <2>4. \A i \in 1..Len(s) : s[i] \in S
    BY <2>2, <2>3 DEF Range
  <2>5. s \in Seq(S)
    BY <2>2, <2>4
  <2> QED
    BY <2>5 DEF s
<1>3. DOMAIN call.sources = 1..Len(call.sources) /\ Len(call.sources) \in Nat
  BY <1>1
<1> HIDE DEF S
<1>4. seqs \in Seq(Seq(S))
  BY <1>2, <1>3
<1> HIDE DEF seqs
<1>5. FlattenSeq(seqs) \in Seq(S)
  BY <1>4, FlattenElements
<1> QED
  BY <1>5 DEF S, seqs

(* dest is what the call says, until a file module follows a link. *)
LEMMA DestInvNext ==
  ASSUME CallInv, OrdinaryCall, PlacesInv, DestInv, [Next]_vars
  PROVE  DestInv'
<1> USE DEF vars, state, Return
<1>0. /\ before' = before /\ args'.follow = args.follow /\ args'.force = args.force
      /\ args'.decompress = args.decompress /\ args'.remote_src = args.remote_src /\ args'.content = args.content
  BY FieldsKept
<1>b. \A file : Named(file)' = Named(file)
  BY <1>0 DEF Named
(* dest stays, or there is no file to come. *)
<1>a. ASSUME files' = files, dest' = dest, slash' = slash, pc' = "copy" => pc = "copy" PROVE DestInv'
  <2>1. AsCalled => AsCalled'
    BY <1>0, <1>a DEF AsCalled
  <2>2. Drifted => Drifted'
    BY <1>0, <1>b, <1>a DEF Drifted
  <2> QED
    BY <1>0, <1>a, <2>1, <2>2 DEF DestInv
<1>1. CASE CheckArgs
  BY <1>1, <1>a DEF CheckArgs
<1>2. CASE MakeTempfile
  <2>1. CASE pc' = "done"
    BY <1>2, <1>a, <2>1 DEF MakeTempfile
  <2>2. CASE pc' # "done"
    <3>1. /\ args = before.args /\ dest = args.dest /\ slash = args.slash
          /\ args.content \in BOOLEAN /\ ~ArgsRefused /\ args.content
          /\ dest' = dest /\ slash' = slash /\ files' = <<ContentFile>>
      BY <1>2, <2>2, SameCall DEF IsCall, CallInv, ArgsInv, PhaseInv, MakeTempfile
    <3>2. args.sources = <<>> /\ ~slash
      BY <3>1 DEF ArgsRefused
    <3>3. ~IntoDirectory(before.args)
      BY <3>1, <3>2 DEF IntoDirectory
    <3>4. SourceFiles(before.args) = {ContentFile}
      BY <3>1 DEF SourceFiles
    <3>5. files' \in Seq(SourceFiles(before.args))
      <4> HIDE DEF ContentFile
      <4> QED
        BY <3>1, <3>4
    <3> QED
      BY <1>0, <3>1, <3>2, <3>3, <3>5 DEF DestInv, AsCalled
  <2> QED
    BY <2>1, <2>2
<1>3. CASE RemoteSrc
  BY <1>3, <1>a DEF RemoteSrc
<1>4. CASE ListFiles
  <2>1. CASE pc' = "done"
    BY <1>4, <1>a, <2>1 DEF ListFiles
  <2>2. CASE pc' # "done"
    <3>1. /\ files' = FlattenSeq([k \in DOMAIN args.sources |-> FilesOf(args.sources[k])])
          /\ slash' = (slash \/ \E k \in DOMAIN args.sources : args.sources[k].dir)
          /\ dest' = dest /\ ~args.remote_src /\ ~args.content
      BY <1>4, <2>2 DEF ListFiles
    <3>2. args = before.args /\ dest = args.dest /\ slash = args.slash
      BY <1>4 DEF CallInv, ArgsInv, PhaseInv, ListFiles
    <3>3. files' \in Seq(SourceFiles(before.args))
      BY <3>1, <3>2, SourceFilesListed
    <3> QED
      BY <1>0, <3>1, <3>2, <3>3 DEF DestInv, AsCalled, IntoDirectory
  <2> QED
    BY <2>1, <2>2
<1>5. CASE SourceMissing
  BY <1>5, <1>a DEF SourceMissing
<1>6. CASE ConnectionBreaks
  BY <1>6, <1>a DEF ConnectionBreaks
<1>7. CASE ContentToDirectory
  BY <1>7, <1>a DEF ContentToDirectory
<1>8. CASE PassOver
  BY <1>8, <1>a DEF PassOver, Continue
<1>9. CASE CheckOnly
  BY <1>9, <1>a DEF CheckOnly, Continue
<1>10. CASE SendRaw
  BY <1>10, <1>a DEF SendRaw, Continue
<1>11. CASE RunModule
  BY <1>11, <1>a DEF RunModule, ModuleReturned, ToCopy, TheNext
<1>12. CASE RunFile
  <2> DEFINE path == DestFile(files[next])
  <2>1. /\ files' = files /\ pc = "copy" /\ ToCopy /\ ~Differs(files[next])
        /\ \/ args.follow /\ target[path].kind = "link" /\ dest' = target[path].to /\ slash' = FALSE
           \/ UNCHANGED <<dest, slash>>
    BY <1>12 DEF RunFile, ModuleReturned, ToCopy, TheNext
  <2>2. CASE UNCHANGED <<dest, slash>>
    BY <1>a, <2>1, <2>2
  <2>3. CASE ~UNCHANGED <<dest, slash>>
    <3>1. args.follow /\ target[path].kind = "link" /\ dest' = target[path].to /\ slash' = FALSE
      BY <2>1, <2>3
    <3>2. args.force /\ ~args.decompress
      BY <2>1, <3>1 DEF ToCopy, Taken, Exists, Differs
    <3>3. next \in DOMAIN files /\ files[next] \in SourceFiles(before.args)
      BY <2>1, TheNextFile DEF ToCopy
    <3>4. ~Drifted
      <4> SUFFICES ASSUME Drifted PROVE FALSE
        OBVIOUS
      <4>1. path = dest /\ target[dest].kind = "file"
        BY DriftedFacts
      <4> QED
        BY <3>1, <4>1
    <3>5. path = Named(files[next])
      BY <2>1, <3>3, <3>4, DestFileIsNamed DEF DestInv
    <3>6. before.target[path].kind = "link" /\ target[path].to = before.target[path].to
      BY <3>1, <3>3, <3>5, NamedFacts DEF PlacesInv
    <3>7. Drifted'
      BY <1>0, <1>b, <2>1, <3>1, <3>2, <3>3, <3>5, <3>6 DEF Drifted
    <3> QED
      BY <1>0, <2>1, <3>1, <3>7 DEF DestInv
  <2> QED
    BY <2>2, <2>3
<1>13. CASE Finish
  BY <1>13, <1>a DEF Finish
<1>14. CASE Done \/ UNCHANGED vars
  BY <1>14, <1>a DEF Done
<1> QED
  BY <1>1, <1>2, <1>3, <1>4, <1>5, <1>6, <1>7, <1>8, <1>9, <1>10, <1>11, <1>12, <1>13, <1>14 DEF Next

(* Of an ordinary call. *)
OthersInv == OrdinaryCall => PlacesInv /\ DestInv /\ OthersUntouched

(* At first nothing was written. *)
LEMMA OthersInvInit == Init => OthersInv
<1> SUFFICES ASSUME Init, OrdinaryCall PROVE PlacesInv /\ DestInv /\ OthersUntouched
  BY DEF OthersInv
<1>1. target = before.target /\ files = <<>> /\ pc = "check"
  BY DEF Init
<1>2. PlacesInv
  BY <1>1 DEF PlacesInv, OrdinaryCall, Ordinary, LinksToFiles, PlacesAreFiles, Named
<1> QED
  BY <1>1, <1>2 DEF DestInv, OthersUntouched

(* Each step keeps it. *)
LEMMA OthersInvNext == CallInv /\ IsFiles(target) /\ OthersInv /\ [Next]_vars => OthersInv'
<1> SUFFICES ASSUME CallInv, IsFiles(target), OthersInv, [Next]_vars, OrdinaryCall'
             PROVE  (PlacesInv /\ DestInv /\ OthersUntouched)'
  BY DEF OthersInv
<1>1. /\ before' = before /\ args'.force = args.force /\ args'.decompress = args.decompress
      /\ args'.remote_src = args.remote_src /\ args'.content = args.content /\ args'.sources = args.sources
  BY FieldsKept
<1>2. OrdinaryCall /\ PlacesInv /\ DestInv /\ OthersUntouched
  BY <1>1 DEF OrdinaryCall, OthersInv
<1>3. DestInv'
  BY <1>2, DestInvNext
<1>4. DOMAIN target = DOMAIN before.target
  BY <1>2 DEF PlacesInv
<1>5. CASE target' = target /\ pc \in {"check", "list"}
  <2>1. target' = before'.target
    BY <1>1, <1>5 DEF CallInv, PhaseInv
  <2>2. OthersUntouched'
    BY <2>1 DEF OthersUntouched
  <2>3. PlacesInv'
    BY <1>1, <1>2, <1>5 DEF PlacesInv, Named
  <2> QED
    BY <1>3, <2>2, <2>3
<1>6. CASE files' = files /\ StepWrites
  <2>1. PICK spots, ways :
          /\ Writes(target, target', spots, ways)
          /\ \A way \in ways : IntoDirectory(before.args) /\ \E file \in SourceFiles(before.args) : way = Named(file)
          /\ \A spot \in spots : MayBeWritten(spot)
          /\ \A k \in DOMAIN Given : spots # {} => Given[k] \in SourceFiles(before.args)
    BY <1>6 DEF StepWrites
  <2>2. \A spot \in spots : \E file \in SourceFiles(before.args) : spot \in PlacesOf(file)
    BY <2>1 DEF MayBeWritten
  <2>3. PlacesInv'
    BY <1>1, <1>2, <2>1, <2>2, PlacesKept
  <2>4. Given' = Given
    BY <1>1, <1>6 DEF Given
  <2>5. OthersUntouched'
    BY <1>1, <1>2, <1>4, <2>1, <2>4, OthersKept
  <2> QED
    BY <1>3, <2>3, <2>5
<1> QED
  BY <1>2, <1>5, <1>6, NextWrites

(* A call writes to the places of its source files alone, or to what they    *)
(* link to, and without force only where nothing was: nothing else of the    *)
(* target is touched, whatever fails and whatever the file before left.      *)
THEOREM OthersAreUntouched ==
  Spec => [](Ordinary(before.args, before.target) => OthersUntouched)
<1>1. OthersInv => (Ordinary(before.args, before.target) => OthersUntouched)
  BY DEF OthersInv, OrdinaryCall
<1>2. TextsInv => IsFiles(target)
  BY DEF TextsInv, NoNewLink
<1> QED
  BY OthersInvInit, OthersInvNext, CallInvariance, TextsInvariance, <1>1, <1>2, PTL DEF Spec

(***************************************************************************)
(* What a call that does not fail says.                                    *)
(***************************************************************************)

(* What is above one entry of a directory is above the others. *)
LEMMA AboveOfFront ==
  ASSUME NEW S, NEW path \in Seq(S), path # <<>>, NEW above \in Seq(S), NEW member \in S,
         IsStrictPrefix(above, Append(Front(path), member))
  PROVE  IsStrictPrefix(above, path)
<1> DEFINE front == Front(path)
           other == Append(front, member)
<1>1. Len(path) \in Nat /\ Len(path) > 0
  OBVIOUS
<1>2. front \in Seq(S) /\ Len(front) = Len(path) - 1
  BY <1>1, FrontLength
<1>3. front = SubSeq(path, 1, Len(path) - 1)
  BY DEF Front
<1>4. \A i \in 1..Len(front) : front[i] = path[i]
  BY <1>1, <1>2, <1>3
<1> HIDE DEF front
<1>5. /\ other \in Seq(S) /\ Len(other) = Len(path)
      /\ \A i \in 1..Len(front) : other[i] = front[i]
  BY <1>1, <1>2
<1> HIDE DEF other
<1> DEFINE n == Len(above)
<1>6. n \in Nat /\ n <= Len(path) /\ SubSeq(above, 1, n) = SubSeq(other, 1, n) /\ above # other
  BY <1>5 DEF IsStrictPrefix, IsPrefix, other, front
<1>7. n # Len(path)
  <2> SUFFICES ASSUME n = Len(path) PROVE FALSE
    OBVIOUS
  <2>1. SubSeq(above, 1, n) = above /\ SubSeq(other, 1, n) = other
    BY <1>5
  <2> QED
    BY <1>6, <2>1
<1>8. n <= Len(front)
  BY <1>1, <1>2, <1>6, <1>7
<1>9. \A i \in 1..n : above[i] = path[i]
  <2>1. ASSUME NEW i \in 1..n PROVE above[i] = path[i]
    <3>1. i \in 1..Len(front)
      BY <1>2, <1>6, <1>8
    <3>2. SubSeq(above, 1, n)[i] = above[i]
      BY <1>6
    <3>3. SubSeq(other, 1, n)[i] = other[i]
      BY <1>5, <1>6
    <3> QED
      BY <1>4, <1>5, <1>6, <3>1, <3>2, <3>3
  <2> QED
    BY <2>1
<1>10. SubSeq(above, 1, n) = SubSeq(path, 1, n)
  BY <1>6, <1>9
<1>11. above # path
  BY <1>7
<1> QED
  BY <1>6, <1>10, <1>11 DEF IsStrictPrefix, IsPrefix

(* What is above the place of a file that is there, is there. *)
AboveThere(fs) ==
  \A file \in SourceFiles(before.args), above \in DOMAIN fs :
    Exists(fs, Named(file)) /\ IsStrictPrefix(above, Named(file)) => fs[above] # Nothing

(* The member of an archive and the archive itself go to one directory, and *)
(* the directories of that are made.                                        *)
LEMMA ArchivePlace ==
  ASSUME CallInv, OrdinaryCall, PlacesInv, AsCalled, slash => ~args.remote_src, args.decompress,
         NEW file \in SourceFiles(before.args)
  PROVE  At(file) = Named(file)
<1>1. /\ At(file) \in {Named(file), Real(target, Named(file))} /\ Named(file) \in DOMAIN target
      /\ ~args.follow => At(file) = Named(file)
  BY AtIsPlace, NamedFacts
<1>2. args.follow => before.target[Named(file)].kind # "link"
  BY SameCall DEF OrdinaryCall, Ordinary, NothingOdd, Named
<1> QED
  BY <1>1, <1>2, RealFacts

(* In a directory the module joins dest and the name of the file. *)
LEMMA JoinedIsNamed ==
  ASSUME OrdinaryCall, PlacesInv, AsCalled, slash, ~args.remote_src, NEW file \in SourceFiles(before.args)
  PROVE  /\ Joined(file) = Named(file) /\ Made(file) = MakeDirs(target, Named(file))
         /\ Named(file) \in DOMAIN target /\ Made(file)[Named(file)] = target[Named(file)]
<1>1. Named(file) \in DOMAIN target /\ Joined(file) = Named(file) /\ Made(file) = MakeDirs(target, Named(file))
  BY NamedFacts DEF AsCalled, Joined, Made
<1>2. MakeDirs(target, Named(file))[Named(file)] = target[Named(file)]
  BY <1>1 DEF MakeDirs, IsStrictPrefix
<1> QED
  BY <1>1, <1>2

(* Directories are made of what was not there. *)
LEMMA MadeFacts ==
  ASSUME NEW file
  PROVE  /\ DOMAIN Made(file) = DOMAIN target
         /\ \A path \in DOMAIN target :
              \/ Made(file)[path] = target[path]
              \/ /\ target[path] = Nothing /\ Made(file)[path] = Directory
                 /\ slash /\ ~args.remote_src /\ IsStrictPrefix(path, Joined(file))
         /\ ~slash => Made(file) = target
  BY DEF Made, MakeDirs

(* The module sees what the plugin saw. *)
LEMMA ModuleDiffers ==
  ASSUME CallInv, OrdinaryCall, PlacesInv, DestInv, ToCopy, Differs(files[next]), ~args.decompress
  PROVE  Differing(files[next])
<1> DEFINE file == files[next]
<1>1. pc = "copy" /\ file \in SourceFiles(before.args) /\ Stat(DestFile(file)).text # file.text
  BY TheNextFile DEF ToCopy, TheNext, Differs
<1> HIDE DEF file
<1> SUFFICES ASSUME ~Differing(file) PROVE FALSE
  BY DEF file
<1>2. Made(file)[At(file)].kind = "file" /\ Made(file)[Real(Made(file), At(file))].text = file.text
  BY DEF Differing
<1>3. Made(file)[At(file)].text = file.text
  BY <1>2 DEF Real
<1>4. At(file) \in DOMAIN target => target[At(file)].kind = "file" /\ target[At(file)].text = file.text
  BY <1>2, <1>3, MadeFacts, NothingAndDirectory
<1>5. CASE AsCalled
  <2>1. slash => ~args.remote_src
    BY <1>1 DEF DestInv
  <2>2. /\ DestFile(file) = Named(file) /\ Named(file) \in DOMAIN target
        /\ At(file) \in {Named(file), Real(target, Named(file))}
        /\ ~args.follow => At(file) = Named(file)
    BY <1>1, <1>5, <2>1, AtIsPlace, DestFileIsNamed, NamedFacts
  <2>3. Real(target, Named(file)) \in DOMAIN target
        /\ (target[Named(file)].kind # "link" => Real(target, Named(file)) = Named(file))
    BY <2>2, RealFacts
  <2>4. Stat(Named(file)).text = file.text
    BY <1>4, <2>2, <2>3 DEF Stat
  <2> QED
    BY <1>1, <2>2, <2>4
<1>6. CASE Drifted
  <2>1. dest \in DOMAIN target /\ DestFile(file) = dest /\ Real(target, dest) = dest /\ At(file) = dest
    BY <1>6, DriftedFacts
  <2> QED
    BY <1>1, <1>4, <2>1 DEF Stat
<1> QED
  BY <1>1, <1>5, <1>6 DEF DestInv

(* It passes over a file the plugin did not only where dest is a directory. *)
LEMMA NotSkipped ==
  ASSUME CallInv, OrdinaryCall, PlacesInv, DestInv, ToCopy, Skips(files[next])
  PROVE  ~slash /\ TakenForFile
<1> DEFINE file == files[next]
<1>1. /\ pc = "copy" /\ file \in SourceFiles(before.args)
      /\ ~args.force /\ ~Exists(target, DestFile(file)) /\ Exists(Made(file), Joined(file))
  BY TheNextFile DEF ToCopy, TheNext, Taken, Skips
<1> HIDE DEF file
<1>2. AsCalled /\ (slash => ~args.remote_src)
  BY <1>1 DEF DestInv, Drifted
<1>3. DestFile(file) = Named(file)
  BY <1>1, <1>2, DestFileIsNamed
<1>4. ~slash
  <2> SUFFICES ASSUME slash PROVE FALSE
    OBVIOUS
  <2>1. Joined(file) = Named(file) /\ Made(file)[Named(file)] = target[Named(file)]
    BY <1>1, <1>2, JoinedIsNamed
  <2> QED
    BY <1>1, <1>3, <2>1 DEF Exists
<1>5. Joined(file) = dest /\ Made(file) = target
  BY <1>4, MadeFacts DEF Joined
<1>6. Named(file) # before.args.dest
  BY <1>1, <1>2, <1>3, <1>5 DEF AsCalled, Exists
<1>7. IsDir(before.target, before.args.dest)
  BY <1>1, <1>2, <1>4, <1>6, NamedFacts DEF AsCalled
<1> QED
  BY <1>1, <1>4, <1>7 DEF TakenForFile

(* Where a module is run for an archive that goes to a directory. *)
ArchiveInv == pc = "copy" /\ args.decompress /\ slash /\ ~args.raw => AboveThere(target)

(* A module that does not fail and changes something says so. *)
LEMMA ModuleTells ==
  ASSUME CallInv, OrdinaryCall, PlacesInv, DestInv, ArchiveInv, IsFiles(target), ToCopy,
         Differs(files[next]), ~args.check_mode, ~args.raw,
         NEW mode, NEW outcome \in ModuleOutcomes(files[next], mode), ~outcome.failed, outcome.target # target
  PROVE  /\ outcome.changed /\ MayWrite(files[next])
         /\ outcome.target = Moved(Unlinked(files[next]), At(files[next]), files[next], mode)
<1> DEFINE file == files[next]
<1>1. pc = "copy" /\ file \in SourceFiles(before.args)
  BY TheNextFile DEF ToCopy, TheNext
<1>2. Skips(file) => Made(file) = target
  BY NotSkipped, MadeFacts
<1>3. MayWrite(file) /\ ~Differing(file) => Made(file) = target /\ args.decompress
  <2> SUFFICES ASSUME MayWrite(file), ~Differing(file) PROVE Made(file) = target /\ args.decompress
    OBVIOUS
  <2>1. args.decompress
    BY ModuleDiffers
  <2> HIDE DEF file
  <2>2. CASE slash
    <3>1. AsCalled /\ ~args.remote_src
      BY <1>1, <2>1, <2>2 DEF DestInv, Drifted
    <3>2. At(file) = Named(file)
      BY <1>1, <2>1, <3>1, ArchivePlace
    <3>3. /\ Made(file) = MakeDirs(target, Named(file))
          /\ Named(file) \in DOMAIN target /\ Made(file)[Named(file)] = target[Named(file)]
      BY <1>1, <2>2, <3>1, JoinedIsNamed
    <3>4. target[Named(file)].kind = "file"
      BY <3>2, <3>3 DEF Differing
    <3>5. \A above \in DOMAIN target : IsStrictPrefix(above, Named(file)) => target[above] # Nothing
      BY <1>1, <2>1, <2>2, <3>4 DEF ArchiveInv, AboveThere, Exists
    <3>6. MakeDirs(target, Named(file)) = [path \in DOMAIN target |-> target[path]]
      BY <3>5 DEF MakeDirs
    <3> QED
      BY <2>1, <3>3, <3>6 DEF IsFiles
  <2>3. CASE ~slash
    BY <2>1, <2>3, MadeFacts
  <2> QED
    BY <2>2, <2>3
<1> HIDE DEF file
<1>4. outcome \in ModuleOutcomes(file, mode)
  BY DEF file
<1>5. \/ outcome = Outcome(TRUE, FALSE, target) \/ outcome = Outcome(TRUE, FALSE, Made(file))
      \/ Skips(file) /\ outcome = Outcome(FALSE, FALSE, Made(file))
      \/ /\ MayWrite(file) /\ Differing(file)
         /\ \/ \E fs \in FailedWrites(Unlinked(file), At(file), file) : outcome = Outcome(TRUE, FALSE, fs)
            \/ outcome = Outcome(FALSE, TRUE, Moved(Unlinked(file), At(file), file, mode))
      \/ /\ MayWrite(file) /\ ~Differing(file)
         /\ \E has_changed \in BOOLEAN : outcome = Outcome(FALSE, has_changed, WithMode(file, mode))
  BY <1>4, ModuleCases
<1>6. \A fs : outcome = Outcome(TRUE, FALSE, fs) => outcome.failed
  BY DEF Outcome
<1>8. Skips(file) /\ outcome = Outcome(FALSE, FALSE, Made(file)) => outcome.target = target
  BY <1>2 DEF Outcome
<1>9. MayWrite(file) /\ ~Differing(file) => WithMode(file, mode) = target
  BY <1>3 DEF WithMode
<1>10. \A has_changed : outcome = Outcome(FALSE, has_changed, WithMode(file, mode)) =>
         outcome.target = WithMode(file, mode)
  BY DEF Outcome
<1>11. MayWrite(file) /\ outcome = Outcome(FALSE, TRUE, Moved(Unlinked(file), At(file), file, mode))
  BY <1>5, <1>6, <1>8, <1>9, <1>10
<1>12. outcome.changed /\ outcome.target = Moved(Unlinked(file), At(file), file, mode)
  BY <1>11 DEF Outcome
<1> QED
  BY <1>11, <1>12 DEF file

(* What is above the places stays there, and is made with them. *)
LEMMA AboveKept ==
  ASSUME CallInv, OrdinaryCall, Apart(before.args, before.target), PlacesInv, AsCalled,
         slash, ~args.remote_src, args.decompress, AboveThere(target),
         NEW file \in SourceFiles(before.args), NEW mode
  PROVE  AboveThere(Moved(Unlinked(file), At(file), file, mode))
<1> DEFINE place == Named(file)
           made == Made(file)
           member == Append(Front(place), file.member)
           unlinked == Unlink(made, place, file)
           gs == [unlinked EXCEPT ![member] = File(file.text, "default")]
<1>1. At(file) = place
  BY ArchivePlace
<1>2. Moved(Unlinked(file), At(file), file, mode) = gs
  BY <1>1 DEF Moved, Unlinked
<1>3. /\ DOMAIN made = DOMAIN target /\ place \in DOMAIN target /\ made[place] = target[place]
      /\ \A path \in DOMAIN target :
           \/ made[path] = target[path]
           \/ target[path] = Nothing /\ made[path] = Directory /\ IsStrictPrefix(path, place)
      /\ \A path \in DOMAIN target : IsStrictPrefix(path, place) => made[path] # Nothing
  <2>1. /\ Joined(file) = place /\ made = MakeDirs(target, place)
        /\ place \in DOMAIN target /\ made[place] = target[place]
    BY JoinedIsNamed
  <2>2. \A path \in DOMAIN target : IsStrictPrefix(path, place) => made[path] # Nothing
    BY <2>1, NothingAndDirectory DEF MakeDirs
  <2> QED
    BY <2>1, <2>2, MadeFacts
<1>4. /\ DOMAIN target \subseteq Seq(STRING) /\ place # <<>> /\ file.member \in STRING
  <2>1. /\ before.args.dest \in Seq(STRING) /\ file.rel \in Seq(STRING) \ {<<>>} /\ file.member \in STRING
        /\ DOMAIN target \subseteq Seq(STRING)
    BY DEF OrdinaryCall, Ordinary, WellFormed, Apart, PlacesInv
  <2>2. place = before.args.dest \o file.rel
    BY NamedFacts DEF AsCalled
  <2> HIDE DEF place
  <2>3. place # <<>>
    BY <2>1, <2>2
  <2> QED
    BY <2>1, <2>3
<1>5. File(file.text, "default").kind = "file" /\ File("", "default").kind = "file"
  BY DEF File, Entry
<1>6. \A other \in SourceFiles(before.args) : Named(other) \in DOMAIN target /\ ~IsStrictPrefix(Named(other), place)
  BY NamedFacts DEF OrdinaryCall, Ordinary, PlacesAreFiles, Named
<1> HIDE DEF place, made
<1>7. /\ DOMAIN unlinked = DOMAIN target
      /\ \A path \in DOMAIN target :
           \/ unlinked[path] = made[path]
           \/ path = place /\ target[place].kind = "link" /\ unlinked[path] = File("", "default")
  BY <1>3 DEF Unlink
<1> HIDE DEF unlinked
<1>8. /\ DOMAIN gs = DOMAIN target
      /\ \A path \in DOMAIN target :
           gs[path] = unlinked[path] \/ (path = member /\ gs[path] = File(file.text, "default"))
  BY <1>7
<1> HIDE DEF gs, member
<1>9. \A path \in DOMAIN target : made[path] # Nothing => gs[path] # Nothing
  BY <1>5, <1>7, <1>8, NothingAndDirectory
<1>10. ASSUME NEW other \in SourceFiles(before.args), NEW above \in DOMAIN target,
              Exists(gs, Named(other)), IsStrictPrefix(above, Named(other))
       PROVE  gs[above] # Nothing
  <2> DEFINE its == Named(other)
  <2>1. its \in DOMAIN target /\ ~IsStrictPrefix(its, place)
    BY <1>6
  <2>2. CASE Exists(target, its)
    <3>1. target[above] # Nothing
      BY <1>10, <2>2 DEF AboveThere
    <3>2. made[above] # Nothing
      BY <1>3, <3>1, NothingAndDirectory
    <3> QED
      BY <1>9, <3>2
  <2>3. CASE ~Exists(target, its)
    <3>1. target[its].kind = "none" /\ gs[its].kind # "none"
      BY <1>10, <2>3 DEF Exists
    <3>2. its = member
      <4> HIDE DEF its
      <4>1. made[its] = target[its]
        BY <1>3, <2>1
      <4>2. unlinked[its] = made[its]
        BY <1>7, <2>1, <3>1
      <4> QED
        BY <1>8, <2>1, <3>1, <4>1, <4>2
    <3>3. IsStrictPrefix(above, Append(Front(place), file.member))
      BY <1>10, <3>2 DEF member
    <3>4. place \in Seq(STRING) /\ above \in Seq(STRING)
      BY <1>3, <1>4
    <3>5. IsStrictPrefix(above, place)
      BY <1>4, <3>3, <3>4, AboveOfFront
    <3> QED
      BY <1>3, <1>9, <3>5
  <2> QED
    BY <2>2, <2>3
<1>11. AboveThere(gs)
  BY <1>8, <1>10 DEF AboveThere
<1> QED
  BY <1>2, <1>11

(* The places a file may be at are one on the target as it was. *)
LEMMA OnePlace ==
  ASSUME OrdinaryCall, PlacesInv, NEW place \in DOMAIN target, NEW at \in {place, Real(target, place)}
  PROVE  at \in DOMAIN target /\ Real(before.target, at) = Real(before.target, place)
<1>1. at \in DOMAIN target /\ at \in {place, Real(before.target, place)}
  BY RealFacts
<1>2. place \in DOMAIN before.target
  BY DEF PlacesInv
<1>3. Real(before.target, Real(before.target, place)) = Real(before.target, place)
  <2>1. CASE before.target[place].kind = "link"
    <3>1. /\ Real(before.target, place) \in DOMAIN before.target
          /\ before.target[Real(before.target, place)].kind = "file"
      BY <1>2, <2>1, RealAtFirst
    <3> QED
      BY <3>1, RealAtFirst
  <2>2. CASE before.target[place].kind # "link"
    BY <1>2, <2>2, RealAtFirst
  <2> QED
    BY <2>1, <2>2
<1> QED
  BY <1>1, <1>3

(* What the plugin found at the place is the text of the file. *)
LEMMA TextFound ==
  ASSUME OrdinaryCall, PlacesInv, NEW file \in SourceFiles(before.args), Stat(Named(file)).text = file.text
  PROVE  Exists(target, Named(file)) /\ target[Real(target, Named(file))].text = file.text
<1>1. Named(file) \in DOMAIN target /\ file.text # ""
  BY NamedFacts
<1>2. /\ Real(target, Named(file)) \in DOMAIN target
      /\ target[Named(file)].kind # "link" => Real(target, Named(file)) = Named(file)
  BY <1>1, RealFacts
<1>3. CASE args.follow
  <2>1. target[Real(target, Named(file))].text = file.text
    BY <1>3 DEF Stat
  <2>2. target[Real(target, Named(file))].kind = "file"
    BY <1>1, <1>2, <2>1 DEF PlacesInv
  <2> QED
    BY <1>2, <2>1, <2>2 DEF Exists
<1>4. CASE ~args.follow
  <2>1. target[Named(file)].text = file.text
    BY <1>4 DEF Stat
  <2>2. target[Named(file)].kind = "file"
    BY <1>1, <2>1 DEF PlacesInv
  <2> QED
    BY <1>2, <2>1, <2>2 DEF Exists
<1> QED
  BY <1>3, <1>4

(* The files before the next one are at their places. *)
Copied ==
  \A k \in DOMAIN files : k < next =>
    /\ Exists(target, Named(files[k]))
    /\ args.force /\ (\A j \in DOMAIN files : j < next /\ Named(files[j]) = Named(files[k]) => j <= k) =>
         target[Real(target, Named(files[k]))].text = files[k].text

(* One more file was copied. *)
OneMore(spots) ==
  /\ next' = next + 1 /\ files' = files
  /\ spots \subseteq {Named(files[next]), Real(target, Named(files[next]))}
  /\ \E ways : Writes(target, target', spots, ways)
  /\ Exists(target', Named(files[next]))
  /\ args.force => target'[Real(target', Named(files[next]))].text = files[next].text

(* One more file is copied, and those before it stay at their places. *)
LEMMA CopiedKept ==
  ASSUME CallInv, OrdinaryCall, Apart(before.args, before.target), PlacesInv, DestInv, TheNext, Copied,
         before' = before, args'.force = args.force, NEW spots, OneMore(spots)
  PROVE  Copied'
<1> DEFINE place == Named(files[next])
<1>1. /\ next \in DOMAIN files /\ next \in Nat /\ DOMAIN files \subseteq Nat
      /\ \A k \in DOMAIN files : files[k] \in SourceFiles(before.args)
      /\ place \in DOMAIN target
  <2>1. next \in DOMAIN files /\ next \in Nat /\ files[next] \in SourceFiles(before.args)
    BY TheNextFile
  <2>2. DOMAIN files \subseteq Nat
    <3>1. DOMAIN files = 1..Len(files) /\ Len(files) \in Nat
      BY DEF DestInv
    <3> QED
      BY <3>1
  <2>3. place \in DOMAIN target
    BY <2>1, NamedFacts
  <2> QED
    BY <2>1, <2>2, <2>3, FilesAreSources
<1>2. /\ next' = next + 1 /\ files' = files
      /\ \A file : Named(file)' = Named(file)
  BY DEF OneMore, Named
<1>3. PICK ways : Writes(target, target', spots, ways)
  BY DEF OneMore
<1>4. ASSUME NEW k \in DOMAIN files, k < next, Named(files[k]) # place
      PROVE  /\ Exists(target', Named(files[k]))
             /\ target'[Real(target', Named(files[k]))].text = target[Real(target, Named(files[k]))].text
  <2> DEFINE its == Named(files[k])
             real == Real(target, its)
  <2>1. its \in DOMAIN target /\ Exists(target, its) /\ its = Place(before.args, before.target, files[k])
        /\ place = Place(before.args, before.target, files[next])
    BY <1>1, <1>4, NamedFacts DEF Copied, Named
  <2>2. Real(before.target, its) # Real(before.target, place)
    BY <1>1, <1>4, <2>1 DEF Apart
  <2> HIDE DEF its, place
  <2>3. real \in DOMAIN target /\ Real(before.target, real) = Real(before.target, its)
    BY <2>1, OnePlace
  <2>4. \A spot \in spots : Real(before.target, spot) = Real(before.target, place)
    <3>1. spots \subseteq {place, Real(target, place)}
      BY DEF OneMore, place
    <3> QED
      BY <1>1, <3>1, OnePlace
  <2>5. its \notin spots /\ real \notin spots
    BY <2>2, <2>3, <2>4
  <2>6. Alike(target'[its], target[its])
    BY <1>3, <2>1, <2>5, NothingAndDirectory DEF Writes, Exists
  <2>7. Real(target', its) = real
    BY <2>6 DEF Alike, Real
  <2>8. target'[real].text = target[real].text
    BY <1>3, <2>3, <2>5, NothingAndDirectory DEF Writes, Alike
  <2>9. Exists(target', its) /\ target'[Real(target', its)].text = target[real].text
    BY <2>1, <2>6, <2>7, <2>8 DEF Alike, Exists
  <2> QED
    BY <2>9 DEF its
<1>5. Exists(target', place) /\ (args.force => target'[Real(target', place)].text = files[next].text)
  BY DEF OneMore
<1>6. ASSUME NEW k \in DOMAIN files, k < next'
      PROVE  /\ Exists(target', Named(files[k]))
             /\ args.force /\ (\A j \in DOMAIN files : j < next' /\ Named(files[j]) = Named(files[k]) => j <= k) =>
                  target'[Real(target', Named(files[k]))].text = files[k].text
  <2>1. k \in Nat /\ (k = next \/ k < next) /\ next < next' /\ \A j \in DOMAIN files : j < next => j < next'
    BY <1>1, <1>2, <1>6
  <2>2. CASE k = next
    BY <1>5, <2>2
  <2>3. CASE k < next /\ Named(files[k]) = place
    <3>1. ~(next <= k)
      BY <1>1, <2>1, <2>3
    <3>2. ~(\A j \in DOMAIN files : j < next' /\ Named(files[j]) = Named(files[k]) => j <= k)
      BY <1>1, <2>1, <2>3, <3>1
    <3>3. Exists(target', Named(files[k]))
      BY <1>5, <2>3
    <3> QED
      BY <3>2, <3>3
  <2>4. CASE k < next /\ Named(files[k]) # place
    <3>1. /\ Exists(target', Named(files[k]))
          /\ target'[Real(target', Named(files[k]))].text = target[Real(target, Named(files[k]))].text
      BY <1>4, <2>4
    <3>2. args.force /\ (\A j \in DOMAIN files : j < next /\ Named(files[j]) = Named(files[k]) => j <= k) =>
            target[Real(target, Named(files[k]))].text = files[k].text
      BY <2>4 DEF Copied
    <3>3. (\A j \in DOMAIN files : j < next' /\ Named(files[j]) = Named(files[k]) => j <= k) =>
            (\A j \in DOMAIN files : j < next /\ Named(files[j]) = Named(files[k]) => j <= k)
      BY <2>1
    <3> QED
      BY <3>1, <3>2, <3>3
  <2> QED
    BY <2>1, <2>2, <2>3, <2>4
<1> HIDE DEF place
<1> QED
  BY <1>2, <1>6 DEF Copied

(* The calls whose files all come to be where they are to be. *)
Plain == ~args.check_mode /\ ~args.decompress /\ ~DestDrifts /\ ~TakenForFile

(* When no place is a link that is followed, dest stays where it is. *)
LEMMA PlainFacts ==
  ASSUME OrdinaryCall, PlacesInv, DestInv, pc = "copy", ~DestDrifts
  PROVE  /\ AsCalled /\ (slash => ~args.remote_src)
         /\ \A k \in DOMAIN files : args.follow => target[Named(files[k])].kind # "link"
<1>1. AsCalled
  BY DEF DestInv, Drifted, DestDrifts
<1>2. slash => ~args.remote_src
  BY DEF DestInv
<1>3. ASSUME NEW k \in DOMAIN files, args.follow PROVE target[Named(files[k])].kind # "link"
  <2>1. before.target[Named(files[k])].kind # "link"
    BY <1>3 DEF DestDrifts
  <2>2. Named(files[k]) \in DOMAIN target
    BY FilesAreSources, NamedFacts
  <2> QED
    BY <2>1, <2>2 DEF PlacesInv
<1> QED
  BY <1>1, <1>2, <1>3

(* What a step of a plain call does to the next file. *)
LEMMA StepLands ==
  ASSUME CallInv, OrdinaryCall, PlacesInv, DestInv, ArchiveInv, IsFiles(target), Plain, pc = "copy",
         Next, pc' = "copy"
  PROVE  TheNext /\ \E spots : OneMore(spots)
<1> DEFINE file == files[next]
           place == Named(file)
<1>0. TheNext
  BY DEF Next, CheckArgs, MakeTempfile, RemoteSrc, ListFiles, SourceMissing, ConnectionBreaks, ContentToDirectory,
         PassOver, ToCopy, CheckOnly, SendRaw, RunModule, RunFile, Finish, Done, Return, vars
<1>1. /\ next \in DOMAIN files /\ file \in SourceFiles(before.args) /\ place \in DOMAIN target
      /\ DestFile(file) = place /\ (args.follow => target[place].kind # "link")
  <2>1. next \in DOMAIN files /\ file \in SourceFiles(before.args)
    BY <1>0, TheNextFile
  <2>2. AsCalled /\ (args.follow => target[place].kind # "link")
    BY <2>1, PlainFacts DEF Plain
  <2> HIDE DEF file
  <2>3. DestFile(file) = place /\ place \in DOMAIN target
    BY <2>1, <2>2, DestFileIsNamed, NamedFacts
  <2> QED
    BY <2>1, <2>2, <2>3 DEF file
<1>2. /\ Real(target, place) \in DOMAIN target
      /\ target[place].kind # "link" => Real(target, place) = place
      /\ target[place].kind = "link" => target[Real(target, place)].kind = "file"
  BY <1>1, RealFacts
<1>3. Writes(target, target, {}, {})
  BY WritesNothing
<1>4. ~args.check_mode /\ ~args.decompress
  BY DEF Plain
(* The same texts, and they are right. *)
<1>a. ASSUME ~Differs(file), next' = next + 1, files' = files, NEW ways, Writes(target, target', {}, ways)
      PROVE  \E spots : OneMore(spots)
  <2>1. Stat(place).text = file.text
    BY <1>1, <1>a DEF Differs
  <2> DEFINE real == Real(target, place)
  <2>2. Exists(target, place) /\ target[real].text = file.text /\ real \in DOMAIN target
    BY <1>1, <1>2, <2>1, TextFound
  <2> HIDE DEF place, real
  <2>3. Alike(target'[place], target[place])
    BY <1>1, <1>a, <2>2, NothingAndDirectory DEF Writes, Exists
  <2>4. Real(target', place) = real
    BY <2>3 DEF Alike, Real, real
  <2>5. target'[real].text = target[real].text
    BY <1>a, <2>2, NothingAndDirectory DEF Writes, Alike
  <2>6. Exists(target', place) /\ target'[Real(target', place)].text = file.text
    BY <2>2, <2>3, <2>4, <2>5 DEF Alike, Exists
  <2>7. OneMore({})
    BY <1>a, <2>6 DEF OneMore, place
  <2> QED
    BY <2>7
(* The text is written. *)
<1>b. ASSUME next' = next + 1, files' = files, NEW at \in {place, Real(target, place)}, NEW mode, NEW ways,
             Writes(target, target', {at}, ways), target'[at] = File(file.text, mode)
      PROVE  \E spots : OneMore(spots)
  <2>1. target'[at].kind = "file" /\ target'[at].text = file.text
    BY <1>b DEF File, Entry
  <2> HIDE DEF place
  <2>2. CASE at = place
    <3>1. Real(target', place) = place /\ Exists(target', place) /\ target'[place].text = file.text
      BY <2>1, <2>2 DEF Real, Exists
    <3>2. OneMore({at})
      BY <1>b, <3>1 DEF OneMore, place
    <3> QED
      BY <3>2
  <2>3. CASE at # place
    <3>1. at = Real(target, place) /\ target[place].kind = "link"
      BY <1>2, <1>b, <2>3
    <3>2. Alike(target'[place], target[place])
      BY <1>1, <1>b, <2>3, <3>1, NothingAndDirectory DEF Writes
    <3>3. Real(target', place) = at /\ Exists(target', place)
      BY <3>1, <3>2 DEF Alike, Real, Exists
    <3>4. OneMore({at})
      BY <1>b, <2>1, <3>3 DEF OneMore, place
    <3> QED
      BY <3>4
  <2> QED
    BY <2>2, <2>3
<1>5. CASE PassOver
  <2>1. next' = next + 1 /\ files' = files /\ target' = target /\ Exists(target, place) /\ ~args.force
    BY <1>1, <1>5 DEF PassOver, Continue, Taken
  <2>2. OneMore({})
    BY <1>3, <2>1 DEF OneMore
  <2> QED
    BY <1>0, <2>2
<1>6. CASE SendRaw
  <2>1. next' = next + 1 /\ files' = files
    BY <1>6 DEF SendRaw, Continue
  <2>2. CASE ~Differs(file)
    <3>1. target' = target
      BY <1>6, <2>2 DEF SendRaw
    <3> QED
      BY <1>0, <1>3, <1>a, <2>1, <2>2, <3>1
  <2>3. CASE Differs(file)
    <3> DEFINE at == Real(target, place)
               mode == ModeAfter(target, at, "none")
    <3>1. target' = [target EXCEPT ![at] = File(file.text, mode)]
      BY <1>1, <1>6, <2>3 DEF SendRaw
    <3>2. at \in DOMAIN target
      BY <1>2
    <3> HIDE DEF at, mode
    <3>3. target'[at] = File(file.text, mode)
      BY <3>1, <3>2
    <3>4. Writes(target, [target EXCEPT ![at] = File(file.text, mode)], {at}, {})
      BY FileWrites
    <3>5. Writes(target, target', {at}, {})
      BY <3>1, <3>4
    <3> QED
      BY <1>0, <1>b, <2>1, <3>3, <3>5 DEF at
  <2> QED
    BY <2>2, <2>3
<1>7. CASE RunModule
  <2>1. PICK outcome \in ModuleOutcomes(file, ModeOf(file)) : ModuleReturned(file, TRUE, outcome)
    BY <1>7 DEF RunModule
  <2>2. /\ ToCopy /\ ~args.raw /\ Differs(file) /\ ~outcome.failed
        /\ next' = next + 1 /\ files' = files /\ target' = outcome.target
    BY <1>7, <2>1 DEF RunModule, ModuleReturned, Return
  <2>3. outcome = Outcome(FALSE, TRUE, Moved(Unlinked(file), At(file), file, ModeOf(file)))
    <3>1. Differing(file) /\ ~Skips(file)
      BY <1>4, <2>2, ModuleDiffers, NotSkipped DEF Plain
    <3>2. \A has_changed, fs : Outcome(TRUE, has_changed, fs).failed
      BY DEF Outcome
    <3> HIDE DEF file
    <3> QED
      BY <1>4, <2>1, <2>2, <3>1, <3>2, ModuleCases
  <2>4. At(file) = place
    <3>1. AsCalled /\ (slash => ~args.remote_src)
      BY PlainFacts DEF Plain
    <3> HIDE DEF file
    <3>2. At(file) \in {place, Real(target, place)} /\ (~args.follow => At(file) = place)
      BY <1>1, <3>1, AtIsPlace
    <3> QED
      BY <1>1, <1>2, <3>2
  <2> DEFINE mode == ModeAfter(Unlinked(file), place, ModeOf(file))
             unlinked == Unlinked(file)
  <2>5. target' = [unlinked EXCEPT ![place] = File(file.text, mode)]
    <3>1. target' = Moved(unlinked, place, file, ModeOf(file))
      BY <2>2, <2>3, <2>4 DEF Outcome
    <3> QED
      BY <1>4, <3>1 DEF Moved
  <2>6. DOMAIN unlinked = DOMAIN target
    BY MadeFacts DEF Unlinked, Unlink
  <2> HIDE DEF mode, unlinked, file, place
  <2>7. target'[place] = File(file.text, mode)
    BY <1>1, <2>5, <2>6
  <2>8. Writes(target, target', Spots(file), Ways(file))
    BY <2>1, <2>2, ModuleWrites
  <2>9. Spots(file) \subseteq {place}
    BY <1>4, <2>4 DEF Spots
  <2>10. Writes(target, target', {place}, Ways(file))
    BY <2>8, <2>9 DEF Writes
  <2> QED
    BY <1>0, <1>b, <2>2, <2>7, <2>10
<1>8. CASE RunFile
  <2>1. PICK path : \E outcome \in FileOutcomes(file, ModeOf(file), path) : ModuleReturned(file, changed, outcome)
    BY <1>8 DEF RunFile
  <2>2. PICK outcome \in FileOutcomes(file, ModeOf(file), path) : ModuleReturned(file, changed, outcome)
    BY <2>1
  <2>3. ~Differs(file) /\ next' = next + 1 /\ files' = files /\ target' = outcome.target
    BY <1>8, <2>2 DEF RunFile, ModuleReturned, Return
  <2> HIDE DEF file
  <2>4. Writes(target, target', {}, {})
    BY <2>2, <2>3, FileModuleWrites
  <2> QED
    BY <1>0, <1>a, <2>3, <2>4
<1> QED
  BY <1>4, <1>5, <1>6, <1>7, <1>8
  DEF Next, CheckArgs, MakeTempfile, RemoteSrc, ListFiles, SourceMissing, ConnectionBreaks, ContentToDirectory,
      CheckOnly, ToCopy, Finish, Done, Return

(***************************************************************************)
(* Success is true.                                                        *)
(***************************************************************************)

ApartCall == Apart(before.args, before.target)

(* What was changed is remembered, by the call and by its only module. *)
ChangeInv ==
  /\ pc \in {"check", "list"} => files = <<>> /\ ~module_executed /\ ~changed
  /\ pc = "copy" =>
       /\ target # before.target => changed
       /\ next = 1 => target = before.target /\ ~module_executed
       /\ module_executed /\ Len(files) = 1 /\ target # before.target => module_return.changed

CopiedInv == pc = "copy" /\ Plain => Copied

(* The file module says whether it changed anything. *)
LEMMA FileTells ==
  ASSUME NEW file, NEW mode, NEW path, NEW outcome \in FileOutcomes(file, mode, path),
         outcome.target # target
  PROVE  outcome.changed
<1> DEFINE at == IF IsDir(target, path) THEN path \o file.rel ELSE path
           with_mode == IF args.check_mode THEN target ELSE [target EXCEPT ![at].mode = ModeAfter(target, at, mode)]
<1>1. PICK has_changed \in BOOLEAN : has_changed = (with_mode # target)
  OBVIOUS
<1>2. outcome = Outcome(TRUE, FALSE, target) \/ outcome = Outcome(FALSE, has_changed, with_mode)
  BY <1>1 DEF FileOutcomes
<1> HIDE DEF with_mode
<1>3. outcome = Outcome(TRUE, FALSE, target) => outcome.target = target
  BY DEF Outcome
<1>4. outcome = Outcome(FALSE, has_changed, with_mode) => outcome.target = with_mode /\ outcome.changed = has_changed
  BY DEF Outcome
<1> QED
  BY <1>1, <1>2, <1>3, <1>4

(* The same of the module for a file that is on the target already. *)
LEMMA RemoteTells ==
  ASSUME args.remote_src, NEW file, NEW mode, NEW outcome \in ModuleOutcomes(file, mode), ~outcome.failed,
         outcome.target # target
  PROVE  outcome.changed
<1>1. Made(file) = target
  BY DEF Made
<1>2. \A has_changed : outcome = Outcome(FALSE, has_changed, Made(file)) => outcome.target = target
  BY <1>1 DEF Outcome
<1>3. \A fs : outcome = Outcome(TRUE, FALSE, fs) => outcome.failed
  BY DEF Outcome
<1>4. \A fs : outcome = Outcome(FALSE, TRUE, fs) => outcome.changed
  BY DEF Outcome
<1>5. ASSUME NEW has_changed \in BOOLEAN, has_changed <=> WithMode(file, mode) # Made(file),
             outcome = Outcome(FALSE, has_changed, WithMode(file, mode))
      PROVE  outcome.changed
  <2>1. outcome.target = WithMode(file, mode) /\ outcome.changed = has_changed
    BY <1>5 DEF Outcome
  <2> QED
    BY <1>1, <1>5, <2>1
<1> QED
  BY <1>2, <1>3, <1>4, <1>5, ModuleCases

(* What is there at first is in directories. *)
LEMMA AboveAtFirst ==
  ASSUME OrdinaryCall, ApartCall
  PROVE  AboveThere(before.target)
<1>1. \A file \in SourceFiles(before.args) : Named(file) \in DOMAIN before.target
  BY DEF OrdinaryCall, Ordinary, PlacesAreFiles, Named
<1> QED
  BY <1>1, NothingAndDirectory DEF AboveThere, ApartCall, Apart, Exists

(* The copying begins with the target as it was. *)
LEMMA CopyBegins ==
  ASSUME CallInv, ChangeInv, [Next]_vars, pc # "copy", pc' = "copy"
  PROVE  /\ pc = "list" /\ next' = next /\ next = 1 /\ target' = target /\ target = before.target
         /\ module_executed' = module_executed /\ ~module_executed
<1>1. pc = "list" /\ UNCHANGED <<next, target, module_executed>>
  BY DEF Next, CheckArgs, MakeTempfile, RemoteSrc, ListFiles, SourceMissing, ConnectionBreaks, ContentToDirectory,
         PassOver, CheckOnly, SendRaw, RunModule, RunFile, ToCopy, TheNext, Finish, Done, Return, vars
<1> QED
  BY <1>1 DEF CallInv, PhaseInv, ChangeInv

(* Archives are taken from directories that are there. *)
LEMMA ArchiveInvNext ==
  ASSUME CallInv, OrdinaryCall, ApartCall, PlacesInv, DestInv, IsFiles(target), ArchiveInv, ChangeInv, [Next]_vars
  PROVE  ArchiveInv'
<1>0. /\ before' = before /\ args'.raw = args.raw /\ args'.decompress = args.decompress
      /\ args'.remote_src = args.remote_src
  BY FieldsKept
<1> SUFFICES ASSUME pc' = "copy", args.decompress, slash', ~args.raw PROVE AboveThere(target')
  BY <1>0 DEF ArchiveInv, AboveThere, Named
<1>1. CASE pc # "copy"
  BY <1>1, CopyBegins, AboveAtFirst
<1>2. CASE pc = "copy"
  <2>1. CASE target' = target /\ slash' = slash
    BY <1>2, <2>1 DEF ArchiveInv
  <2>2. CASE RunModule
    <3> DEFINE file == files[next]
    <3>1. PICK outcome \in ModuleOutcomes(file, ModeOf(file)) : ModuleReturned(file, TRUE, outcome)
      BY <2>2 DEF RunModule
    <3>2. /\ ToCopy /\ Differs(file) /\ ~args.check_mode /\ slash' = slash /\ target' = outcome.target
          /\ ~outcome.failed
      BY <1>2, <2>2, <3>1 DEF RunModule, ModuleReturned, Return
    <3>3. CASE target' # target
      <4>1. target' = Moved(Unlinked(file), At(file), file, ModeOf(file))
        BY <3>1, <3>2, <3>3, ModuleTells
      <4>2. AsCalled /\ slash /\ ~args.remote_src /\ AboveThere(target)
        BY <1>2, <3>2 DEF DestInv, Drifted, ArchiveInv
      <4>3. file \in SourceFiles(before.args)
        BY <3>2, TheNextFile DEF ToCopy
      <4> HIDE DEF file
      <4>4. AboveThere(Moved(Unlinked(file), At(file), file, ModeOf(file)))
        BY <4>2, <4>3, AboveKept DEF ApartCall
      <4> QED
        BY <4>1, <4>4
    <3> QED
      BY <2>1, <3>2, <3>3
  <2> QED
    BY <1>2, <2>1, <2>2
    DEF Next, CheckArgs, MakeTempfile, RemoteSrc, ListFiles, SourceMissing, ConnectionBreaks, ContentToDirectory,
        PassOver, CheckOnly, SendRaw, RunFile, Continue, ToCopy, TheNext, Differs, Finish, Done, Return, vars, state
<1> QED
  BY <1>1, <1>2

(* No change is forgotten. *)
LEMMA ChangeInvNext ==
  ASSUME CallInv, OrdinaryCall, PlacesInv, DestInv, IsFiles(target), ArchiveInv, ChangeInv, [Next]_vars
  PROVE  ChangeInv'
<1> USE DEF vars, state, Return
<1>0. before' = before /\ next \in Nat \ {0}
  BY FieldsKept DEF CallInv, PhaseInv
<1>1. CASE pc' \in {"check", "list"}
  BY <1>1 DEF ChangeInv, Next, CheckArgs, MakeTempfile, RemoteSrc, ListFiles, SourceMissing, ConnectionBreaks,
              ContentToDirectory, PassOver, CheckOnly, SendRaw, RunModule, RunFile, Continue, ModuleReturned,
              Accumulate, ToCopy, TheNext, Finish, Done
<1>2. CASE pc # "copy" /\ pc' = "copy"
  BY <1>0, <1>2, CopyBegins DEF ChangeInv
<1>3. CASE pc = "copy" /\ pc' = "copy"
  <2>1. CASE UNCHANGED vars
    BY <1>0, <1>3, <2>1 DEF ChangeInv
  (* The next file of a list of one is the first. *)
  <2>2. TheNext /\ Len(files) = 1 => next = 1
    BY <1>0 DEF TheNext
  <2>3. next' = next + 1 => next' # 1
    BY <1>0
  <2>4. CASE PassOver
    <3>1. /\ UNCHANGED <<target, changed, module_executed, module_return, files>> /\ next' = next + 1
      BY <2>4 DEF PassOver, Continue
    <3> QED
      BY <1>0, <1>3, <2>3, <3>1 DEF ChangeInv
  <2>5. CASE CheckOnly
    <3>1. /\ changed' = TRUE /\ module_return' = [failed |-> FALSE, changed |-> TRUE] /\ next' = next + 1
      BY <2>5 DEF CheckOnly, Continue
    <3> QED
      BY <1>0, <1>3, <2>3, <3>1 DEF ChangeInv
  <2>6. CASE SendRaw
    <3>1. /\ UNCHANGED <<module_executed, module_return, files>> /\ next' = next + 1 /\ TheNext
          /\ changed' = TRUE \/ UNCHANGED <<target, changed>>
      BY <2>6 DEF SendRaw, Continue, ToCopy
    <3>2. module_executed => Len(files) # 1
      BY <1>3, <2>2, <3>1 DEF ChangeInv
    <3> QED
      BY <1>0, <1>3, <2>3, <3>1, <3>2 DEF ChangeInv
  <2>a. ASSUME NEW was, changed => was, NEW outcome, ModuleReturned(files[next], was, outcome), TheNext,
               ~outcome.failed => (outcome.target # target => outcome.changed)
        PROVE  ChangeInv'
    <3>1. /\ ~outcome.failed /\ target' = outcome.target /\ module_return'.changed = outcome.changed
          /\ next' = next + 1 /\ changed' = (was \/ outcome.changed) /\ files' = files
      BY <1>3, <2>a DEF ModuleReturned, Accumulate
    <3>2. target' # target => outcome.changed
      BY <2>a, <3>1
    <3>3. target' # before.target => changed'
      BY <1>3, <2>a, <3>1, <3>2 DEF ChangeInv
    <3>4. Len(files) = 1 /\ target' # before.target => module_return'.changed
      BY <1>3, <2>2, <2>a, <3>1, <3>2 DEF ChangeInv
    <3> QED
      BY <1>0, <1>3, <2>3, <3>1, <3>3, <3>4 DEF ChangeInv
  <2>7. CASE RunModule
    <3>1. PICK outcome \in ModuleOutcomes(files[next], ModeOf(files[next])) : ModuleReturned(files[next], TRUE, outcome)
      BY <2>7 DEF RunModule
    <3>2. ToCopy /\ TheNext /\ ~args.raw /\ ~args.check_mode /\ Differs(files[next])
      BY <2>7 DEF RunModule, ToCopy
    <3>3. ~outcome.failed => (outcome.target # target => outcome.changed)
      BY <3>1, <3>2, ModuleTells
    <3> QED
      BY <2>a, <3>1, <3>2, <3>3
  <2>8. CASE RunFile
    <3>1. PICK path : \E outcome \in FileOutcomes(files[next], ModeOf(files[next]), path) :
                        ModuleReturned(files[next], changed, outcome)
      BY <2>8 DEF RunFile
    <3>2. PICK outcome \in FileOutcomes(files[next], ModeOf(files[next]), path) : ModuleReturned(files[next], changed, outcome)
      BY <3>1
    <3>3. outcome.target # target => outcome.changed
      BY <3>2, FileTells
    <3>4. TheNext
      BY <2>8 DEF RunFile, ToCopy
    <3> QED
      BY <2>a, <3>2, <3>3, <3>4
  <2> QED
    BY <1>3, <2>1, <2>4, <2>5, <2>6, <2>7, <2>8
    DEF Next, CheckArgs, MakeTempfile, RemoteSrc, ListFiles, SourceMissing, ConnectionBreaks, ContentToDirectory,
        Finish, Done
<1>4. CASE pc' \notin {"check", "list", "copy"}
  BY <1>4 DEF ChangeInv
<1> QED
  BY <1>1, <1>2, <1>3, <1>4

(* A step does not make a call a plain one. *)
LEMMA PlainBefore ==
  ASSUME CallInv, OrdinaryCall, PlacesInv, DestInv, Next, pc = "copy", pc' \in {"copy", "done"}, Plain'
  PROVE  Plain /\ files' = files
<1> USE DEF vars, state, Return
<1>1. /\ before' = before /\ args'.force = args.force /\ args'.decompress = args.decompress
      /\ args'.follow = args.follow /\ args'.check_mode = args.check_mode
  BY FieldsKept
<1>2. files' = files
  BY DEF Next, CheckArgs, MakeTempfile, RemoteSrc, ListFiles, SourceMissing, ConnectionBreaks, ContentToDirectory,
         PassOver, CheckOnly, SendRaw, RunModule, RunFile, Continue, ModuleReturned, Finish, Done
<1>3. ~DestDrifts
  <2>1. \A file : Named(file)' = Named(file)
    BY <1>1 DEF Named
  <2> QED
    BY <1>1, <1>2, <2>1 DEF Plain, DestDrifts
<1>4. slash' = slash
  <2>1. CASE RunFile
    <3> DEFINE file == files[next]
    <3>1. TheNext /\ (slash' = slash \/ (args.follow /\ target[DestFile(file)].kind = "link"))
      BY <2>1 DEF RunFile, ToCopy
    <3>2. next \in DOMAIN files /\ file \in SourceFiles(before.args)
      BY <3>1, TheNextFile
    <3>3. AsCalled /\ (args.follow => target[Named(file)].kind # "link")
      BY <1>3, <3>2, PlainFacts
    <3>4. DestFile(file) = Named(file)
      BY <3>2, <3>3, DestFileIsNamed
    <3> QED
      BY <3>1, <3>3, <3>4
  <2>2. CASE ~RunFile
    BY <2>2 DEF Next, CheckArgs, MakeTempfile, RemoteSrc, ListFiles, SourceMissing, ConnectionBreaks,
                ContentToDirectory, PassOver, CheckOnly, SendRaw, RunModule, Continue, Finish, Done
  <2> QED
    BY <2>1, <2>2
<1>5. TakenForFile' <=> TakenForFile
  BY <1>1, <1>4 DEF TakenForFile
<1> QED
  BY <1>1, <1>2, <1>3, <1>5 DEF Plain

(* Each step of a plain call copies the next file. *)
LEMMA CopiedInvNext ==
  ASSUME CallInv, OrdinaryCall, ApartCall, PlacesInv, DestInv, IsFiles(target), ArchiveInv, ChangeInv, CopiedInv,
         [Next]_vars
  PROVE  CopiedInv'
<1> SUFFICES ASSUME pc' = "copy", Plain' PROVE Copied'
  BY DEF CopiedInv
<1>1. CASE pc # "copy"
  <2>1. next' = 1
    BY <1>1, CopyBegins
  <2>2. DestInv'
    BY DestInvNext
  <2>3. \A k \in DOMAIN files' : ~(k < 1)
    <3>1. DOMAIN files' = 1..Len(files') /\ Len(files') \in Nat
      BY <2>2 DEF DestInv
    <3> QED
      BY <3>1
  <2> QED
    BY <2>1, <2>3 DEF Copied
<1>2. CASE pc = "copy" /\ UNCHANGED vars
  BY <1>2 DEF CopiedInv, Plain, Copied, DestDrifts, TakenForFile, Named, vars, state
<1>3. CASE pc = "copy" /\ Next
  <2>1. Plain /\ Copied
    BY <1>3, PlainBefore DEF CopiedInv
  <2>2. TheNext /\ \E spots : OneMore(spots)
    BY <1>3, <2>1, StepLands
  <2>3. before' = before /\ args'.force = args.force
    BY FieldsKept
  <2> QED
    BY <2>1, <2>2, <2>3, CopiedKept DEF ApartCall
<1> QED
  BY <1>1, <1>2, <1>3

(* At the end of the list all are. *)
LEMMA AllAreCopied ==
  ASSUME OrdinaryCall, DestInv, Plain => Copied, next \in Nat, next > Len(files)
  PROVE  AllCopied
<1> SUFFICES ASSUME Plain PROVE AllCopied
  BY DEF Plain, AllCopied
<1>1. DOMAIN files = 1..Len(files) /\ Len(files) \in Nat
  BY DEF DestInv
<1>2. \A k \in DOMAIN files : k < next
  BY <1>1
<1>3. ASSUME NEW k \in DOMAIN files PROVE Landing(files[k]) = Named(files[k])
  <2>1. Named(files[k]) \in DOMAIN before.target
    BY FilesAreSources DEF OrdinaryCall, Ordinary, PlacesAreFiles, Named
  <2>2. args.follow => before.target[Named(files[k])].kind # "link"
    BY <1>3 DEF Plain, DestDrifts
  <2> QED
    BY <2>1, <2>2, RealAtFirst DEF Landing
<1> QED
  BY <1>2, <1>3 DEF AllCopied, Copied

(* So what is said at the end is true. *)
LEMMA SuccessIsTrueNext ==
  ASSUME CallInv, OrdinaryCall, ApartCall, PlacesInv, DestInv, IsFiles(target), ArchiveInv, ChangeInv, CopiedInv,
         SuccessIsTrue, [Next]_vars
  PROVE  SuccessIsTrue'
<1> SUFFICES ASSUME pc' = "done", ~result'.failed PROVE AllCopied' /\ (target' # before'.target => result'.changed)
  BY DEF SuccessIsTrue
<1>0. before' = before
  BY FieldsKept
<1>1. CASE UNCHANGED vars
  BY <1>1 DEF SuccessIsTrue, AllCopied, Landing, Named, DestDrifts, TakenForFile, vars, state
<1>2. CASE RemoteSrc
  <2>1. PICK outcome \in ModuleOutcomes(args.sources[1].files[1], args.mode) :
          Return(outcome.failed, outcome.changed) /\ target' = outcome.target
    BY <1>2 DEF RemoteSrc
  <2>2. pc = "list" /\ args.remote_src /\ files' = files
    BY <1>2 DEF RemoteSrc
  <2>3. files' = <<>> /\ target = before.target
    BY <2>2 DEF ChangeInv, CallInv, PhaseInv
  <2>4. AllCopied'
    BY <2>3 DEF AllCopied
  <2>5. ~outcome.failed /\ result'.changed = outcome.changed
    BY <2>1 DEF Return
  <2>6. target' # target => outcome.changed
    BY <2>1, <2>2, <2>5, RemoteTells
  <2> QED
    BY <1>0, <2>3, <2>4, <2>5, <2>6
<1>3. CASE Finish
  <2>1. /\ pc = "copy" /\ next > Len(files)
        /\ UNCHANGED <<args, next, files, dest, slash, target, before>>
    BY <1>3 DEF Finish, state
  <2>2. next \in Nat
    BY DEF CallInv, PhaseInv
  <2>3. AllCopied
    BY <2>1, <2>2, AllAreCopied DEF CopiedInv
  <2>4. AllCopied'
    BY <2>1, <2>3 DEF AllCopied, Landing, Named, DestDrifts, TakenForFile
  <2>5. result'.changed = IF module_executed /\ Len(files) = 1 /\ ~args.decompress
                           THEN module_return.changed ELSE changed
    BY <1>3 DEF Finish, Return
  <2>6. target # before.target => result'.changed
    <3>1. CASE module_executed /\ Len(files) = 1 /\ ~args.decompress
      BY <2>1, <2>5, <3>1 DEF ChangeInv
    <3>2. CASE ~(module_executed /\ Len(files) = 1 /\ ~args.decompress)
      BY <2>1, <2>5, <3>2 DEF ChangeInv
    <3> QED
      BY <3>1, <3>2
  <2> QED
    BY <1>0, <2>1, <2>4, <2>6
<1> QED
  BY <1>1, <1>2, <1>3
  DEF Next, CheckArgs, MakeTempfile, ListFiles, SourceMissing, ConnectionBreaks, ContentToDirectory, PassOver,
      CheckOnly, SendRaw, RunModule, RunFile, Continue, ModuleReturned, Accumulate, ToCopy, TheNext, Done, Return

(* Of an ordinary call with places that are apart. *)
SuccessInv == OrdinaryCall /\ ApartCall => ArchiveInv /\ ChangeInv /\ CopiedInv /\ SuccessIsTrue

(* At first nothing is said. *)
LEMMA SuccessInvInit == Init => SuccessInv
  BY DEF Init, SuccessInv, ArchiveInv, ChangeInv, CopiedInv, SuccessIsTrue

(* The four together. *)
LEMMA SuccessInvNext == CallInv /\ IsFiles(target) /\ OthersInv /\ SuccessInv /\ [Next]_vars => SuccessInv'
<1> SUFFICES ASSUME CallInv, IsFiles(target), OthersInv, SuccessInv, [Next]_vars, (OrdinaryCall /\ ApartCall)'
             PROVE  (ArchiveInv /\ ChangeInv /\ CopiedInv /\ SuccessIsTrue)'
  BY DEF SuccessInv
<1>1. before' = before
  BY FieldsKept
<1>2. OrdinaryCall /\ ApartCall
  BY <1>1 DEF OrdinaryCall, ApartCall
<1>3. PlacesInv /\ DestInv /\ ArchiveInv /\ ChangeInv /\ CopiedInv /\ SuccessIsTrue
  BY <1>2 DEF OthersInv, SuccessInv
<1> QED
  BY <1>2, <1>3, ArchiveInvNext, ChangeInvNext, CopiedInvNext, SuccessIsTrueNext

(* A call that does not fail has put its files where they are to be, however *)
(* many there are and whatever each of them found, and it says "changed" if  *)
(* it changed anything: on a target where no two places of different names   *)
(* are one file.                                                             *)
THEOREM SuccessIsAlwaysTrue ==
  Spec => [](Ordinary(before.args, before.target) /\ Apart(before.args, before.target) => SuccessIsTrue)
<1>1. SuccessInv => (Ordinary(before.args, before.target) /\ Apart(before.args, before.target) => SuccessIsTrue)
  BY DEF SuccessInv, OrdinaryCall, ApartCall
<1>2. TextsInv => IsFiles(target)
  BY DEF TextsInv, NoNewLink
<1>3. Spec => []OthersInv
  BY OthersInvInit, OthersInvNext, CallInvariance, TextsInvariance, <1>2, PTL DEF Spec
<1> QED
  BY SuccessInvInit, SuccessInvNext, CallInvariance, TextsInvariance, <1>1, <1>2, <1>3, PTL DEF Spec
=============================================================================
