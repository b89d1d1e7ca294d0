---------------------------- MODULE MCCopyAction ----------------------------
(* A directory "d" with two files and a subfolder, and a file "x" elsewhere  *)
(* that the first may link to.                                               *)
EXTENDS CopyAction

A == [rel |-> <<"a">>, text |-> "text a", mode |-> "0644", member |-> "m"]
B == [rel |-> <<"b">>, text |-> "text b", mode |-> "0755", member |-> "m"]
S == [rel |-> <<"s", "a">>, text |-> "text s", mode |-> "0600", member |-> "m"]

One(file) == [dir |-> FALSE, files |-> <<file>>, sub |-> <<>>]
Tree == [dir |-> TRUE, files |-> <<A, B>>, sub |-> <<S>>]

Paths == {<<>>, <<"d">>, <<"d", "a">>, <<"d", "b">>, <<"d", "m">>, <<"d", "tmp">>, <<"d", "s">>,
          <<"d", "s", "a">>, <<"d", "s", "m">>, <<"x">>, <<"m">>}

ConstTargets ==
  LET FilesAt(a, b, x) ==
        [p \in Paths |-> CASE p \in {<<>>, <<"d">>} -> Directory
                          [] p = <<"d", "a">> -> a
                          [] p = <<"d", "b">> -> b
                          [] p = <<"x">> -> x
                          [] OTHER -> Nothing]
      Some(file) == {Nothing, File(file.text, "default"), File("old", "default")}
  IN {FilesAt(a, b, x) : a \in Some(A) \cup {Entry("link", "", "", <<"x">>)}, b \in Some(B),
                         x \in {File("old", "default"), File(A.text, "default")}}
     \cup {[p \in Paths |-> IF p = <<>> THEN Directory ELSE IF p = <<"x">> THEN File("old", "default") ELSE Nothing]}

Call(content, sources, dest_slash, flags, mode) ==
  [content |-> content, sources |-> sources, dest |-> dest_slash[1], slash |-> dest_slash[2],
   raw |-> "raw" \in flags, force |-> "force" \in flags, remote_src |-> "remote_src" \in flags,
   follow |-> "follow" \in flags, decompress |-> "decompress" \in flags, check_mode |-> "check" \in flags,
   mode |-> mode]

ToDirectory == <<<<"d">>, TRUE>>
ToFile == <<<<"d", "a">>, FALSE>>
ToEither == <<<<"d">>, FALSE>>

ConstCalls ==
  {Call(FALSE, to_sources[2], to_sources[1], flags, mode) :
     to_sources \in ({ToDirectory, ToEither} \X {<<Tree>>, <<One(A)>>, <<One(A), One(B)>>})
                    \cup ({ToFile} \X {<<One(A)>>, <<One(A), One(B)>>}),
     flags \in {{"force"}, {}, {"force", "follow"}, {"force", "raw"}, {"raw"}, {"force", "check"}},
     mode \in {"none", "preserve"}}
  \cup {Call(TRUE, <<>>, to, flags, "none") : to \in {ToDirectory, ToFile, ToEither},
          flags \in {{"force"}, {}, {"raw", "force"}, {"check", "force"}, {"decompress"}}}
  \cup {Call(FALSE, <<One(A)>>, to, flags \cup {"remote_src"}, "0600") : to \in {ToDirectory, ToFile},
          flags \in {{"force"}, {}, {"force", "follow"}, {"force", "check"}}}
  \cup {Call(FALSE, <<One(A)>>, to, {"force", "decompress"}, "none") : to \in {ToDirectory, ToFile}}
  \cup {Call(TRUE, <<One(A)>>, ToFile, {}, "none")}

(* The instance is one the theorems about the places of a call speak of. *)
ASSUME OrdinaryInstance == \A call \in ConstCalls, fs \in ConstTargets : Ordinary(call, fs) /\ Apart(call, fs)
=============================================================================
