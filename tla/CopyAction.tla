----------------------------- MODULE CopyAction -----------------------------
(***************************************************************************)
(* bocloud_copy: the action plugin that runs on the worker                 *)
(* (action_plugins/bocloud_copy.py) and the module it runs on the target   *)
(* (modules/bocloud_copy.py).  One call, for one target: the source files  *)
(* are gone through one by one, and what one leaves behind (the directory  *)
(* they go to, the mode, the temporary file) the next one finds.           *)
(*                                                                         *)
(* A path is a sequence of names; a file has a text and a mode.  Ansible's *)
(* own "file" module and the connection are external.                      *)
(***************************************************************************)
EXTENDS Naturals, SequencesExt

CONSTANTS
  Calls,    \* the arguments: [content, sources, dest, slash, raw, force, remote_src,
            \*   follow, decompress, mode, check_mode]; a source is a directory with its
            \*   files and those of its subfolder, or one file [rel, text, mode, member]
  Targets   \* the files a target may have: functions from the paths to entries

Entry(kind, text, mode, to) == [kind |-> kind, text |-> text, mode |-> mode, to |-> to]
Nothing == Entry("none", "", "", <<>>)
Directory == Entry("dir", "", "", <<>>)
File(text, mode) == Entry("file", text, mode, <<>>)

(* A path to entries, and the arguments with their flags. *)
IsFiles(fs) ==
  /\ fs = [path \in DOMAIN fs |-> fs[path]]
  /\ \A path \in DOMAIN fs : LET e == fs[path] IN e = Entry(e.kind, e.text, e.mode, e.to)

IsCall(call) ==
  /\ call = [content |-> call.content, sources |-> call.sources, dest |-> call.dest, slash |-> call.slash,
             raw |-> call.raw, force |-> call.force, remote_src |-> call.remote_src,
             follow |-> call.follow, decompress |-> call.decompress, mode |-> call.mode,
             check_mode |-> call.check_mode]
  /\ {call.content, call.slash, call.raw, call.force, call.remote_src, call.follow,
      call.decompress, call.check_mode} \subseteq BOOLEAN

ASSUME CopyAssumption ==
  /\ \A call \in Calls : IsCall(call)
  /\ \A fs \in Targets : IsFiles(fs)

VARIABLES
  args,          \* self._task.args
  pc,            \* "check", "list", "copy" or "done"
  files,         \* source_files
  next,          \* which of them is next
  dest, slash,   \* dest, and whether it ends with "/"
  tempfile,      \* whether content_tempfile exists
  module_return, module_executed, changed,
  result,        \* [failed, changed]
  target,        \* the files of the target
  before,        \* history: the arguments and the files of the target at first
  applied        \* history: the modes of the files the module was run for

state == <<files, dest, slash, tempfile, module_return, module_executed, changed, target, applied>>
vars == <<args, pc, next, state, result, before>>

Init ==
  /\ args \in Calls /\ target \in Targets
  /\ before = [args |-> args, target |-> target]
  /\ dest = args.dest /\ slash = args.slash
  /\ pc = "check" /\ files = <<>> /\ next = 1 /\ tempfile = FALSE
  /\ module_return = [failed |-> FALSE, changed |-> FALSE] /\ module_executed = FALSE
  /\ changed = FALSE /\ result = [failed |-> FALSE, changed |-> FALSE]
  /\ applied = {}

----------------------------------------------------------------------------
(* main of the module: what can come of one file. *)

Real(fs, path) == IF fs[path].kind = "link" THEN fs[path].to ELSE path
IsDir(fs, path) == fs[Real(fs, path)].kind = "dir"
Exists(fs, path) == fs[path].kind # "none"

(* os.makedirs of the directory of a file. *)
MakeDirs(fs, path) ==
  [p \in DOMAIN fs |-> IF IsStrictPrefix(p, path) /\ fs[p] = Nothing THEN Directory ELSE fs[p]]

(* A link is replaced by an empty file before the text is validated. *)
Unlink(fs, path, file) ==
  IF fs[path].kind = "link" THEN [fs EXCEPT ![path] = File("", "default")] ELSE fs

ModeAfter(fs, path, mode) ==
  IF mode # "none" THEN mode ELSE IF fs[path].kind = "file" THEN fs[path].mode ELSE "default"

(* atomic_move; of an archive, its one member goes to the directory. *)
Moved(fs, path, file, mode) ==
  IF args.decompress /\ ~args.remote_src
  THEN [fs EXCEPT ![Append(Front(path), file.member)] = File(file.text, "default")]
  ELSE [fs EXCEPT ![path] = File(file.text, ModeAfter(fs, path, IF args.decompress THEN "none" ELSE mode))]

(* Mutant: the file is copied to its place itself. *)
CopiedInPlace(fs, path, file) == {fs, [fs EXCEPT ![path] = File("torn", "default")]}

(* What a write that fails leaves: tarfile extracts in place; atomic_move     *)
(* leaves what was there, and the attributes are set after it.               *)
FailedWrites(fs, path, file) ==
  IF args.decompress /\ ~args.remote_src
  THEN {fs, [fs EXCEPT ![Append(Front(path), file.member)] = File("torn", "default")]}
  ELSE {fs, Moved(fs, path, file, "none")}

Outcome(failed, has_changed, fs) == [failed |-> failed, changed |-> has_changed, target |-> fs]

ModuleOutcomes(file, mode) ==
  LET joined == IF slash /\ ~args.remote_src THEN dest \o file.rel ELSE dest
      made == IF slash /\ ~args.remote_src THEN MakeDirs(target, joined) ELSE target
      followed == IF args.follow THEN Real(made, joined) ELSE joined
      at == IF IsDir(made, followed) THEN followed \o file.rel ELSE followed
      dirname == IF slash /\ at = dest THEN dest ELSE Front(at)
      differs == made[Real(made, at)].text # file.text \/ made[at].kind # "file"
      unlinked == Unlink(made, at, file)
      with_mode == IF args.decompress THEN made ELSE [made EXCEPT ![at].mode = ModeAfter(made, at, mode)]
  IN {Outcome(TRUE, FALSE, target), Outcome(TRUE, FALSE, made)} \cup
     (IF Exists(made, joined) /\ ~args.force THEN {Outcome(FALSE, FALSE, made)}
      ELSE IF ~IsDir(made, dirname) THEN {}
      ELSE IF differs /\ args.check_mode THEN {Outcome(FALSE, TRUE, made)}
      ELSE IF differs THEN {Outcome(TRUE, FALSE, fs) : fs \in FailedWrites(unlinked, at, file)}
                           \cup {Outcome(FALSE, TRUE, Moved(unlinked, at, file, mode))}
      ELSE IF args.check_mode THEN {Outcome(FALSE, FALSE, made)}
      ELSE {Outcome(FALSE, with_mode # made, with_mode)})

(* External: the "file" module sets the mode, or fails. *)
FileOutcomes(file, mode, path) ==
  LET at == IF IsDir(target, path) THEN path \o file.rel ELSE path
      with_mode == IF args.check_mode THEN target ELSE [target EXCEPT ![at].mode = ModeAfter(target, at, mode)]
  IN {Outcome(TRUE, FALSE, target), Outcome(FALSE, with_mode # target, with_mode)}

----------------------------------------------------------------------------
(* run of the action plugin. *)

Return(failed, has_changed) ==
  /\ pc' = "done"
  /\ result' = [failed |-> failed, changed |-> has_changed]

(* src and content, or neither; content to a directory or decompressed. *)
ArgsRefused ==
  \/ args.content = (args.sources # <<>>)
  \/ args.content /\ (slash \/ args.decompress)

CheckArgs ==
  /\ pc = "check"
  /\ IF ArgsRefused THEN Return(TRUE, FALSE) ELSE pc' = "list" /\ UNCHANGED result
  /\ UNCHANGED <<args, next, state, before>>

ContentFile == [rel |-> <<"tmp">>, text |-> "content", mode |-> "0600", member |-> "tmp"]

(* _create_content_tempfile. *)
MakeTempfile ==
  /\ pc = "list" /\ args.content
  /\ \/ Return(TRUE, FALSE) /\ UNCHANGED <<tempfile, files>>
     \/ /\ tempfile' = TRUE /\ files' = <<ContentFile>>
        /\ pc' = "copy" /\ UNCHANGED result
  /\ UNCHANGED <<args, next, dest, slash, module_return, module_executed, changed, target, applied, before>>

(* The file is on the target: the module alone. *)
RemoteSrc ==
  /\ pc = "list" /\ args.remote_src /\ ~args.content
  /\ \E outcome \in ModuleOutcomes(args.sources[1].files[1], args.mode) :
       /\ Return(outcome.failed, outcome.changed)
       /\ target' = outcome.target
  /\ UNCHANGED <<args, next, files, dest, slash, tempfile, module_return, module_executed, changed, applied, before>>

(* os.walk of a directory, with _get_recursive_files for every subfolder: a *)
(* file of a subfolder is there twice.                                      *)
FilesOf(source) == IF source.dir THEN source.files \o source.sub \o source.sub ELSE source.files

(* A source is not found, or all are listed; of a directory, dest is one. *)
ListFiles ==
  /\ pc = "list" /\ ~args.remote_src /\ ~args.content
  /\ \/ Return(TRUE, FALSE) /\ UNCHANGED <<files, slash>>
     \/ /\ files' = FlattenSeq([k \in DOMAIN args.sources |-> FilesOf(args.sources[k])])
        /\ slash' = (slash \/ \E k \in DOMAIN args.sources : args.sources[k].dir)
        /\ pc' = "copy" /\ UNCHANGED result
  /\ UNCHANGED <<args, next, dest, tempfile, module_return, module_executed, changed, target, applied, before>>

(* Mutant: the temporary file stays. *)
KeepTempfile == UNCHANGED tempfile

(* _remove_tempfile_if_content_defined. *)
RemoveTempfile == tempfile' = FALSE

(* The mode of the source instead of "preserve", once. *)
ModeOf(file) == IF args.mode = "preserve" THEN file.mode ELSE args.mode

(* dest, or in it when it is a directory. *)
DestFile(file) == IF slash \/ IsDir(target, dest) THEN dest \o file.rel ELSE dest

(* _execute_remote_stat: a link that is not followed has no text. *)
Stat(path) ==
  IF args.follow THEN target[Real(target, path)]
  ELSE target[path]

TheNext == pc = "copy" /\ next <= Len(files)

(* Nothing more of this file: the mode is not reset. *)
Continue(file) ==
  /\ next' = next + 1
  /\ args' = [args EXCEPT !.mode = ModeOf(file)]
  /\ UNCHANGED <<pc, files, dest, slash, module_executed, result, before, applied>>

(* The file is not there any more. *)
SourceMissing ==
  /\ TheNext
  /\ Return(TRUE, FALSE)
  /\ UNCHANGED <<args, next, state, before>>

(* The temporary file of content cannot go to a directory. *)
ContentToDirectory ==
  /\ TheNext
  /\ args.content /\ IsDir(target, dest)
  /\ RemoveTempfile
  /\ Return(TRUE, FALSE)
  /\ UNCHANGED <<args, next, files, dest, slash, module_return, module_executed, changed, target, applied, before>>

(* Mutants: any file that is there is passed over, or none. *)
TakenAlways(file) == Exists(target, DestFile(file))
TakenNever(file) == FALSE

(* The file is there and force is not set: it is passed over. *)
Taken(file) == Exists(target, DestFile(file)) /\ ~args.force

PassOver ==
  /\ TheNext
  /\ LET file == files[next] IN
     /\ ~(args.content /\ IsDir(target, dest))
     /\ Taken(file)
     /\ Continue(file)
  /\ UNCHANGED <<tempfile, module_return, changed, target>>

Differs(file) == Stat(DestFile(file)).text # file.text \/ args.decompress

ToCopy ==
  /\ TheNext
  /\ ~(args.content /\ IsDir(target, dest))
  /\ ~Taken(files[next])

(* The connection breaks: a file that was sent to its place itself is torn. *)
ConnectionBreaks ==
  /\ TheNext
  /\ Return(TRUE, FALSE)
  /\ LET at == Real(target, DestFile(files[next]))
     IN \/ UNCHANGED target
        \/ /\ ToCopy /\ args.raw /\ ~args.check_mode /\ Differs(files[next]) /\ IsDir(target, Front(at))
           /\ target' = [target EXCEPT ![at] = File("torn", "default")]
  /\ UNCHANGED <<args, next, files, dest, slash, tempfile, module_return, module_executed, changed, applied, before>>

(* In check mode the file is not sent. *)
CheckOnly ==
  /\ ToCopy
  /\ args.check_mode /\ Differs(files[next])
  /\ RemoveTempfile
  /\ changed' = TRUE /\ module_return' = [failed |-> FALSE, changed |-> TRUE]
  /\ Continue(files[next])
  /\ UNCHANGED target

(* A raw file is sent to its place itself, if there is a directory for it. *)
SendRaw ==
  /\ ToCopy
  /\ args.raw
  /\ LET file == files[next]
         at == Real(target, DestFile(file))
     IN \/ /\ Differs(file) /\ ~args.check_mode /\ IsDir(target, Front(at))
           /\ target' = [target EXCEPT ![at] = File(file.text, ModeAfter(target, at, "none"))]
           /\ changed' = TRUE
           /\ Continue(file)
        \/ ~Differs(file) /\ Continue(file) /\ UNCHANGED <<target, changed>>
  /\ RemoveTempfile
  /\ UNCHANGED module_return

(* Mutant: the mode stays what it is. *)
ModeStays(file) == args' = [args EXCEPT !.mode = ModeOf(file)]

(* self._task.args['mode'] = mode_value. *)
ResetMode(file) == args' = [args EXCEPT !.mode = before.args.mode]

(* Mutant: the last file decides whether something changed. *)
LastDecides(was, outcome) == changed' = outcome.changed

Accumulate(was, outcome) == changed' = (was \/ outcome.changed)

(* A module was run for the file: its failure ends the call. *)
ModuleReturned(file, was, outcome) ==
  /\ RemoveTempfile
  /\ module_executed' = TRUE
  /\ module_return' = [failed |-> outcome.failed, changed |-> outcome.changed]
  /\ target' = outcome.target
  /\ applied' = applied \cup {[index |-> next, mode |-> ModeOf(file)]}
  /\ IF outcome.failed
     THEN Return(TRUE, FALSE) /\ UNCHANGED <<args, next, changed>>
     ELSE ResetMode(file) /\ next' = next + 1 /\ Accumulate(was, outcome) /\ UNCHANGED <<pc, result>>
  /\ UNCHANGED <<files, before>>

(* The texts differ: the file is sent and the module moves it; whatever it   *)
(* finds there, this counts as a change.                                     *)
RunModule ==
  /\ ToCopy
  /\ ~args.raw /\ ~args.check_mode /\ Differs(files[next])
  /\ \E outcome \in ModuleOutcomes(files[next], ModeOf(files[next])) : ModuleReturned(files[next], TRUE, outcome)
  /\ UNCHANGED <<dest, slash>>

(* They do not: the file module sets the attributes.  When follow is set and *)
(* the file is a link, dest becomes what it links to, for all that follow.   *)
RunFile ==
  /\ ToCopy
  /\ ~args.raw /\ ~Differs(files[next])
  /\ LET path == DestFile(files[next]) IN
     IF args.follow /\ target[path].kind = "link"
     THEN dest' = target[path].to /\ slash' = FALSE
     ELSE UNCHANGED <<dest, slash>>
  /\ \E outcome \in FileOutcomes(files[next], ModeOf(files[next]), dest') : ModuleReturned(files[next], changed, outcome)

(* What the module returned for the only file, or what was gathered. *)
Finish ==
  /\ pc = "copy" /\ next > Len(files)
  /\ Return(FALSE, IF module_executed /\ Len(files) = 1 /\ ~args.decompress THEN module_return.changed ELSE changed)
  /\ UNCHANGED <<args, next, state, before>>

Done == pc = "done" /\ UNCHANGED vars

Next ==
  \/ CheckArgs \/ MakeTempfile \/ RemoteSrc \/ ListFiles
  \/ SourceMissing \/ ConnectionBreaks \/ ContentToDirectory \/ PassOver
  \/ CheckOnly \/ SendRaw \/ RunModule \/ RunFile \/ Finish \/ Done

Spec == Init /\ [][Next]_vars

----------------------------------------------------------------------------
(* Properties. *)

(* The files of a call. *)
SourceFiles(call) ==
  IF call.content THEN {ContentFile}
  ELSE UNION {Range(FilesOf(call.sources[k])) : k \in DOMAIN call.sources}

(* What the call says dest is: a directory, or that or a file. *)
IntoDirectory(call) == call.slash \/ \E k \in DOMAIN call.sources : call.sources[k].dir

(* Where a call is to put a file, on a target as it was at first. *)
Place(call, fs, file) ==
  IF IntoDirectory(call) \/ IsDir(fs, call.dest) THEN call.dest \o file.rel ELSE call.dest

Named(file) == Place(before.args, before.target, file)

Landing(file) == IF args.follow THEN Real(before.target, Named(file)) ELSE Named(file)

Given == IF args.remote_src /\ ~args.content THEN <<args.sources[1].files[1]>> ELSE files

DestDrifts == args.follow /\ \E k \in DOMAIN files : before.target[Named(files[k])].kind = "link"

(* Without force the module takes a directory named without "/" for the file. *)
TakenForFile == ~args.force /\ ~slash /\ IsDir(before.target, before.args.dest)

(***************************************************************************)
(* What is said of the places of a call is meant of an ordinary target.    *)
(***************************************************************************)

(* Paths are names, lists are lists, and a file has a name and a text. *)
WellFormed(call) ==
  /\ call.dest \in Seq(STRING)
  /\ call.sources \in Seq(Range(call.sources))
  /\ \A k \in DOMAIN call.sources : LET source == call.sources[k] IN
       /\ source.files \in Seq(Range(source.files)) /\ source.sub \in Seq(Range(source.sub))
       /\ ~source.dir => Len(source.files) = 1
  /\ \A file \in SourceFiles(call) :
       file.rel \in Seq(STRING) \ {<<>>} /\ file.member \in STRING /\ file.text # ""

(* Only a file has a text, and a link leads to one. *)
LinksToFiles(fs) ==
  \A path \in DOMAIN fs :
    /\ fs[path].text # "" => fs[path].kind = "file"
    /\ fs[path].kind = "link" => fs[path].to \in DOMAIN fs /\ fs[fs[path].to].kind = "file"

(* Where a source file is to go there is no directory, and none is made for  *)
(* another.                                                                  *)
PlacesAreFiles(call, fs) ==
  /\ call.dest \in DOMAIN fs
  /\ \A file \in SourceFiles(call) :
       /\ Place(call, fs, file) \in DOMAIN fs
       /\ fs[Place(call, fs, file)].kind # "dir"
       /\ \A other \in SourceFiles(call) : ~IsStrictPrefix(Place(call, fs, file), Place(call, fs, other))

(* No directory is copied on the target itself; dest with a "/" is no link,  *)
(* and neither is the place of an archive that is to follow links.           *)
NothingOdd(call, fs) ==
  /\ call.remote_src => \A k \in DOMAIN call.sources : ~call.sources[k].dir
  /\ call.slash => fs[call.dest].kind # "link"
  /\ call.follow /\ call.decompress => \A file \in SourceFiles(call) : fs[Place(call, fs, file)].kind # "link"

Ordinary(call, fs) ==
  WellFormed(call) /\ LinksToFiles(fs) /\ PlacesAreFiles(call, fs) /\ NothingOdd(call, fs)

(* Besides, no two places of different names are one file, and what there is *)
(* is in directories.                                                        *)
Apart(call, fs) ==
  /\ \A file, other \in SourceFiles(call) :
       Real(fs, Place(call, fs, file)) = Real(fs, Place(call, fs, other)) =>
         Place(call, fs, file) = Place(call, fs, other)
  /\ DOMAIN fs \subseteq Seq(STRING)
  /\ \A path, above \in DOMAIN fs : IsStrictPrefix(above, path) /\ Exists(fs, path) => Exists(fs, above)

(* A call that does not fail has put every source file to its place, the     *)
(* last of those that have the same; without force, the place is taken.      *)
(* Unless follow meets a link: then dest is the file it leads to, and the    *)
(* files after it overwrite that one; and unless a directory is taken for    *)
(* the file, so that nothing is copied.                                      *)
AllCopied ==
  ~args.check_mode /\ ~args.decompress /\ ~DestDrifts /\ ~TakenForFile =>
    \A k \in DOMAIN files :
      /\ Exists(target, Landing(files[k]))
      /\ args.force /\ (\A j \in DOMAIN files : Landing(files[j]) = Landing(files[k]) => j <= k) =>
           target[Real(target, Landing(files[k]))].text = files[k].text

(* What a call that does not fail says is true: its files are where they are *)
(* to be, and if it changed anything for any of them, it says "changed".     *)
SuccessIsTrue ==
  pc = "done" /\ ~result.failed =>
    AllCopied /\ (target # before.target => result.changed)

(* Only the places of the source files are written to, or what they link to, *)
(* and without force only those that were not taken.                         *)
OthersUntouched ==
  \A path \in DOMAIN target :
    target[path].text # before.target[path].text =>
      /\ \E k \in DOMAIN Given :
           path \in {Named(Given[k]), Real(before.target, Named(Given[k])),
                    Append(Front(Named(Given[k])), Given[k].member)}
      /\ args.force \/ args.decompress \/ ~Exists(before.target, path)

(* A call that fails leaves each file as it was or with the whole text of a  *)
(* source file up to the failing one, unless it was a link, which the module *)
(* replaces before it validates: it is torn only by a file that was sent to  *)
(* its place itself, or by an archive.                                       *)
FailureKeepsText ==
  pc = "done" /\ result.failed =>
    \A path \in DOMAIN target :
      \/ before.target[path].kind = "link"
      \/ target[path].text = before.target[path].text
      \/ target[path].text = "torn" /\ (args.raw \/ args.decompress)
      \/ \E k \in 1..next : target[path].text = Given[k].text

(* With "preserve" a module gets the mode of its own source file, unless the *)
(* file before was passed over, sent raw or only checked: its mode stays.    *)
ModeIsOwn ==
  before.args.mode = "preserve" =>
    \A a \in applied :
      \/ a.mode = files[a.index].mode
      \/ a.index > 1 /\ \A b \in applied : b.index # a.index - 1

(* The temporary file of content is left behind only by a call that fails    *)
(* or passes the file over.                                                  *)
TempfileRemoved ==
  pc = "done" /\ tempfile => result.failed \/ (~args.force /\ Exists(before.target, args.dest))
=============================================================================
