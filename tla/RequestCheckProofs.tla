------------------------- MODULE RequestCheckProofs -------------------------
(***************************************************************************)
(* Proofs about RequestCheck: what its two checks admit, of any request    *)
(* and of any IP and lists, and so on the inputs MCRequestCheck builds.    *)
(***************************************************************************)
EXTENDS MCRequestCheck, TLAPS, FiniteSetTheorems

----------------------------------------------------------------------------
(* The loop over "necessary". *)

(* Both items of a rule are checked, in their order. *)
LEMMA TwoNecessary ==
  ASSUME NEW rule, NEW request, NEW first, NEW second, rule.necessary = <<first, second>>
  PROVE  CheckNecessary(rule, request)
           = IF CheckArg(first, request) = "go on" THEN CheckArg(second, request)
             ELSE CheckArg(first, request)
<1> DEFINE seq == <<first, second>>
           Turn(iter, s) ==
             IF s = {} THEN "go on"
             ELSE LET x == Max(s)
                  IN IF iter[s \ {x}] = "go on" THEN CheckArg(seq[x], request) ELSE iter[s \ {x}]
           Loop(S) == CHOOSE iter : iter = [s \in SUBSET S |-> Turn(iter, s)]
<1>1. CheckNecessary(rule, request) = Loop(DOMAIN seq)[DOMAIN seq]
  BY DEF CheckNecessary, FoldLeft, MapThenFoldSet
<1>2. DOMAIN seq = {1, 2} /\ seq[1] = first /\ seq[2] = second
  OBVIOUS
<1>3. Max({1}) = 1 /\ Max({2}) = 2 /\ Max({1, 2}) = 2
  BY DEF Max
<1> HIDE DEF seq
<1> DEFINE v1 == CheckArg(first, request)
           v2 == IF v1 = "go on" THEN CheckArg(second, request) ELSE v1
           w2 == CheckArg(second, request)
           g == [s \in SUBSET {1, 2} |-> IF s = {} THEN "go on" ELSE IF s = {1} THEN v1
                                         ELSE IF s = {2} THEN w2 ELSE v2]
<1>4. \A s \in SUBSET {1, 2} : s \in {{}, {1}, {2}, {1, 2}}
  OBVIOUS
<1>5. g = [s \in SUBSET {1, 2} |-> Turn(g, s)]
  <2>1. g[{}] = "go on" /\ g[{1}] = v1 /\ g[{2}] = w2 /\ g[{1, 2}] = v2
    <3>1. {1} # {} /\ {2} # {} /\ {1, 2} # {} /\ {2} # {1} /\ {1, 2} # {1} /\ {1, 2} # {2}
      OBVIOUS
    <3> HIDE DEF v1, v2, w2
    <3> QED
      BY <3>1
  <2> HIDE DEF g
  <2>2. {1} \ {1} = {} /\ {2} \ {2} = {} /\ {1, 2} \ {2} = {1} /\ {1} # {} /\ {2} # {} /\ {1, 2} # {}
    OBVIOUS
  <2>3. Turn(g, {}) = "go on"
    OBVIOUS
  <2>4. Turn(g, {1}) = v1
    BY <1>2, <1>3, <2>1, <2>2
  <2>5. Turn(g, {2}) = w2
    BY <1>2, <1>3, <2>1, <2>2
  <2>6. Turn(g, {1, 2}) = v2
    BY <1>2, <1>3, <2>1, <2>2
  <2> HIDE DEF Turn, v1, v2, w2
  <2>7. \A s \in SUBSET {1, 2} : g[s] = Turn(g, s)
    BY <1>4, <2>1, <2>3, <2>4, <2>5, <2>6
  <2>8. g = [s \in SUBSET {1, 2} |-> g[s]]
    BY DEF g
  <2> QED
    BY <2>7, <2>8
<1> DEFINE h == Loop({1, 2})
<1>6. h = [s \in SUBSET {1, 2} |-> Turn(h, s)]
  <2> HIDE DEF g, Turn
  <2> QED
    BY <1>5
<1> HIDE DEF h, g
<1>7. \A s \in SUBSET {1, 2} : h[s] = Turn(h, s)
  <2> HIDE DEF Turn
  <2> QED
    BY <1>6
<1>8. h[{}] = "go on"
  BY <1>7
<1>9. h[{1}] = v1
  <2>1. h[{1}] = Turn(h, {1})
    <3> HIDE DEF Turn
    <3> QED
      BY <1>7
  <2>2. {1} \ {1} = {} /\ {1} # {}
    OBVIOUS
  <2> QED
    BY <1>2, <1>3, <1>8, <2>1, <2>2
<1>10. h[{1, 2}] = v2
  <2>1. h[{1, 2}] = Turn(h, {1, 2})
    <3> HIDE DEF Turn
    <3> QED
      BY <1>7
  <2>2. {1, 2} \ {2} = {1} /\ {1, 2} # {}
    OBVIOUS
  <2> QED
    BY <1>2, <1>3, <1>9, <2>1, <2>2
<1> QED
  BY <1>1, <1>2, <1>10 DEF h

(* Of a rule whose options are two keys, one is given, with all it needs. *)
LEMMA TwoOptions ==
  ASSUME NEW rule, NEW request, NEW one, NEW other, one # other,
         DOMAIN rule.opt_sole = {one, other}
  PROVE  CheckOptSole(rule, request) <=>
           \/ /\ other \notin DOMAIN request /\ one \in DOMAIN request
              /\ rule.opt_sole[one] \subseteq NamesIn(request[one])
           \/ /\ one \notin DOMAIN request /\ other \in DOMAIN request
              /\ rule.opt_sole[other] \subseteq NamesIn(request[other])
<1> DEFINE given == {one, other} \cap DOMAIN request
<1>1. CheckOptSole(rule, request) <=>
        Cardinality(given) = 1 /\ \A o \in given : rule.opt_sole[o] \subseteq NamesIn(request[o])
  BY DEF CheckOptSole
<1>2. CASE one \in DOMAIN request /\ other \notin DOMAIN request
  <2>1. given = {one} /\ Cardinality({one}) = 1
    BY <1>2, FS_Singleton
  <2> QED
    BY <1>1, <1>2, <2>1
<1>3. CASE one \notin DOMAIN request /\ other \in DOMAIN request
  <2>1. given = {other} /\ Cardinality({other}) = 1
    BY <1>3, FS_Singleton
  <2> QED
    BY <1>1, <1>3, <2>1
<1>4. CASE one \notin DOMAIN request /\ other \notin DOMAIN request
  <2>1. given = {} /\ Cardinality({}) = 0
    BY <1>4, FS_EmptySet
  <2> QED
    BY <1>1, <1>4, <2>1
<1>5. CASE one \in DOMAIN request /\ other \in DOMAIN request
  <2>1. given = {one, other} /\ IsFiniteSet({one})
    BY <1>5, FS_Singleton
  <2>2. Cardinality({one} \cup {other}) = Cardinality({one}) + 1
    BY <2>1, FS_AddElement
  <2>3. {one} \cup {other} = {one, other} /\ Cardinality({one}) = 1
    BY FS_Singleton
  <2>4. Cardinality(given) = 2
    BY <2>1, <2>2, <2>3
  <2> QED
    BY <1>1, <1>5, <2>4
<1> QED
  BY <1>2, <1>3, <1>4, <1>5

(* The values of a body, and of a list in it. *)
IsValue(value) == value.kind \in {"text", "dict", "list", "scalar"}
IsBody(request) ==
  \A k \in DOMAIN request :
    /\ IsValue(request[k])
    /\ request[k].kind = "list" => \A i \in DOMAIN request[k].items : IsValue(request[k].items[i])

(* What "in" finds is what the value holds. *)
LEMMA NamesAreHeld ==
  ASSUME NEW value, IsValue(value), NEW names, names # {}
  PROVE  names \subseteq NamesIn(value) <=> Holds(value, names)
<1>1. CASE value.kind = "dict"
  BY <1>1 DEF NamesIn, Holds
<1>2. CASE value.kind = "text"
  BY <1>2 DEF NamesIn, Holds
<1>3. CASE value.kind = "list"
  <2>1. NamesIn(value) = {item.text : item \in {i \in Range(value.items) : i.kind = "text"}}
    BY <1>3 DEF NamesIn
  <2>2. ASSUME NEW n
        PROVE  n \in NamesIn(value) <=>
                 \E i \in DOMAIN value.items : value.items[i].kind = "text" /\ value.items[i].text = n
    BY <2>1 DEF Range
  <2>3. Holds(value, names) <=>
          \A n \in names : \E i \in DOMAIN value.items : value.items[i].kind = "text" /\ value.items[i].text = n
    BY <1>3 DEF Holds
  <2> QED
    BY <2>2, <2>3
<1>4. CASE value.kind = "scalar"
  BY <1>4 DEF NamesIn, Holds
<1> QED
  BY <1>1, <1>2, <1>3, <1>4 DEF IsValue

(* A key of a rule that has no rule of its own only has to be there. *)
LEMMA KeyIsThere ==
  ASSUME NEW arg, NEW request, arg.kind # "child"
  PROVE  CheckArg(arg, request) = IF arg.keys \cap DOMAIN request = {} THEN "invalid" ELSE "go on"
BY DEF CheckArg

(* The targets of /job/submit: each of a list needs a host, and so does      *)
(* anything else, which ends the check.                                      *)
LEMMA TargetsChecked ==
  ASSUME NEW request, IsBody(request), NEW arg, arg = Child("targets", {"host"})
  PROVE  CheckArg(arg, request)
           = IF "targets" \notin DOMAIN request \/ ~TargetsHaveHost(request.targets) THEN "invalid"
             ELSE IF request.targets.kind = "list" THEN "go on" ELSE "valid"
<1> DEFINE value == request.targets
<1>1. arg.kind = "child" /\ arg.keys = {"targets"} /\ arg.child = {"host"}
  BY DEF Child
<1>2. (CHOOSE k \in arg.keys : TRUE) = "targets"
  BY <1>1
<1>3. CASE "targets" \notin DOMAIN request
  <2>1. arg.keys \cap DOMAIN request = {}
    BY <1>1, <1>3
  <2>2. CheckArg(arg, request) = "invalid"
    BY <2>1, Zenon DEF CheckArg
  <2> QED
    BY <1>3, <2>2
<1>4. CASE "targets" \in DOMAIN request
  <2>1. CheckArg(arg, request) = CheckChild(arg, value)
    BY <1>1, <1>2, <1>4 DEF CheckArg
  <2>2. IsValue(value) /\ (value.kind = "list" => \A i \in DOMAIN value.items : IsValue(value.items[i]))
    BY <1>4 DEF IsBody
  <2>3. arg.child # {}
    BY <1>1
  <2>4. arg.child \subseteq NamesIn(value) <=> Holds(value, arg.child)
    BY <2>2, <2>3, NamesAreHeld
  <2>5. value.kind = "list" =>
          \A i \in DOMAIN value.items : arg.child \subseteq NamesIn(value.items[i]) <=> Holds(value.items[i], arg.child)
    BY <2>2, <2>3, NamesAreHeld
  <2>6. CheckChild(arg, value)
          = IF ~TargetsHaveHost(value) THEN "invalid" ELSE IF value.kind = "list" THEN "go on" ELSE "valid"
    BY <1>1, <2>4, <2>5 DEF CheckChild, TargetsHaveHost
  <2> QED
    BY <1>4, <2>1, <2>6
<1> QED
  BY <1>3, <1>4

----------------------------------------------------------------------------
(* /job/submit accepts a request, whatever else its body holds, exactly when *)
(* it names the job, gives every target a host and, for a list of targets,   *)
(* asks for a complete module or a complete script but not for both, where   *)
(* a text or a list passes for an object when it holds the names             *)
(* (check_request of base_handler.py against the rule of api_request).       *)
THEOREM SubmitIsRuled ==
  ASSUME NEW request, IsBody(request)
  PROVE  CheckRequestItems(api_request.submit, request) <=>
           /\ DOMAIN request \cap IdKeys # {}
           /\ "targets" \in DOMAIN request /\ TargetsHaveHost(request.targets)
           /\ request.targets.kind = "list" =>
                \/ /\ "script" \notin DOMAIN request /\ "module" \in DOMAIN request
                   /\ Holds(request.module, {"name", "args"})
                \/ /\ "module" \notin DOMAIN request /\ "script" \in DOMAIN request
                   /\ Holds(request.script, {"type", "content"})
<1> DEFINE rule == api_request.submit
           verdict == CheckNecessary(rule, request)
           ids == OneOf(IdKeys)
           targets == Child("targets", {"host"})
<1>1. /\ rule.necessary = <<ids, targets>>
      /\ DOMAIN rule.opt_sole = {"module", "script"}
      /\ rule.opt_sole["module"] = {"name", "args"} /\ rule.opt_sole["script"] = {"type", "content"}
  BY DEF api_request, IdKeys
<1>2. ids.kind # "child" /\ ids.keys = IdKeys
  BY DEF OneOf
<1> HIDE DEF rule, ids, targets
<1>3. verdict = IF CheckArg(ids, request) = "go on" THEN CheckArg(targets, request) ELSE CheckArg(ids, request)
  BY <1>1, TwoNecessary
<1>4. CheckArg(ids, request) = IF IdKeys \cap DOMAIN request = {} THEN "invalid" ELSE "go on"
  BY <1>2, KeyIsThere
<1>5. CheckArg(targets, request)
        = IF "targets" \notin DOMAIN request \/ ~TargetsHaveHost(request.targets) THEN "invalid"
          ELSE IF request.targets.kind = "list" THEN "go on" ELSE "valid"
  BY TargetsChecked DEF targets
<1>6. CheckOptSole(rule, request) <=>
        \/ /\ "script" \notin DOMAIN request /\ "module" \in DOMAIN request
           /\ Holds(request["module"], {"name", "args"})
        \/ /\ "module" \notin DOMAIN request /\ "script" \in DOMAIN request
           /\ Holds(request["script"], {"type", "content"})
  <2>1. "module" # "script"
    OBVIOUS
  <2>2. CheckOptSole(rule, request) <=>
          \/ /\ "script" \notin DOMAIN request /\ "module" \in DOMAIN request
             /\ rule.opt_sole["module"] \subseteq NamesIn(request["module"])
          \/ /\ "module" \notin DOMAIN request /\ "script" \in DOMAIN request
             /\ rule.opt_sole["script"] \subseteq NamesIn(request["script"])
    BY <1>1, <2>1, TwoOptions
  <2>3. \A k \in DOMAIN request : IsValue(request[k])
    BY DEF IsBody
  <2>4. /\ "module" \in DOMAIN request =>
             ({"name", "args"} \subseteq NamesIn(request["module"]) <=> Holds(request["module"], {"name", "args"}))
        /\ "script" \in DOMAIN request =>
             ({"type", "content"} \subseteq NamesIn(request["script"]) <=> Holds(request["script"], {"type", "content"}))
    <3>1. {"name", "args"} # {} /\ {"type", "content"} # {}
      OBVIOUS
    <3> QED
      BY <2>3, <3>1, NamesAreHeld
  <2> QED
    BY <1>1, <2>2, <2>4
<1>7. CheckRequestItems(rule, request) <=>
        verdict = "valid" \/ (verdict = "go on" /\ CheckOptSole(rule, request))
  BY DEF CheckRequestItems
<1> HIDE DEF verdict
<1> QED
  BY <1>3, <1>4, <1>5, <1>6, <1>7 DEF rule

(* The rules of /server/status/scan and /logview want their two keys and     *)
(* nothing more: the values are not looked at.                               *)
THEOREM ScanAndLogviewAreRuled ==
  ASSUME NEW request
  PROVE  /\ CheckRequestItems(api_request.scan, request) <=> {"queue", "targets"} \subseteq DOMAIN request
         /\ CheckRequestItems(api_request.logview, request) <=> {"filepath", "target"} \subseteq DOMAIN request
<1>1. ASSUME NEW rule, NEW one, NEW other, rule.necessary = <<Key(one), Key(other)>>, DOMAIN rule.opt_sole = {}
      PROVE  CheckRequestItems(rule, request) <=> {one, other} \subseteq DOMAIN request
  <2>1. ASSUME NEW k
        PROVE  CheckArg(Key(k), request) = IF k \in DOMAIN request THEN "go on" ELSE "invalid"
    <3>1. Key(k).kind # "child" /\ Key(k).keys = {k}
      BY DEF Key
    <3>2. CheckArg(Key(k), request) = IF Key(k).keys \cap DOMAIN request = {} THEN "invalid" ELSE "go on"
      BY <3>1, KeyIsThere
    <3>3. {k} \cap DOMAIN request = {} <=> k \notin DOMAIN request
      OBVIOUS
    <3> QED
      BY <3>1, <3>2, <3>3
  <2>2. /\ CheckArg(Key(one), request) = IF one \in DOMAIN request THEN "go on" ELSE "invalid"
        /\ CheckArg(Key(other), request) = IF other \in DOMAIN request THEN "go on" ELSE "invalid"
    BY <2>1
  <2>3. CheckNecessary(rule, request)
          = IF one \in DOMAIN request /\ other \in DOMAIN request THEN "go on" ELSE "invalid"
    BY <1>1, <2>2, TwoNecessary
  <2>4. CheckOptSole(rule, request)
    BY <1>1 DEF CheckOptSole
  <2> QED
    BY <2>3, <2>4 DEF CheckRequestItems
<1>2. DOMAIN <<>> = {}
  OBVIOUS
<1>3. /\ api_request.scan.necessary = <<Key("queue"), Key("targets")>>
      /\ api_request.scan.opt_sole = <<>>
      /\ api_request.logview.necessary = <<Key("filepath"), Key("target")>>
      /\ api_request.logview.opt_sole = <<>>
  BY DEF api_request
<1> QED
  BY <1>1, <1>2, <1>3

----------------------------------------------------------------------------
(* The two IP lists, with the codes of an entry taken for what they mean: a  *)
(* number, a scope with both ends, or any number below top.                  *)

IsCode(code) ==
  \/ code = Star
  \/ \E start, end \in Int : code = Scope(start, end)
  \/ \E n \in Int : code = Number(n)

Covers(code, top) == IF code.kind = "*" THEN 0 .. top ELSE code.start .. code.end

LEMMA CodeCovers ==
  ASSUME NEW code, IsCode(code), NEW top \in Nat, NEW n \in 0 .. top
  PROVE  CodeMatches(code, n) <=> n \in Covers(code, top)
<1>1. CASE code = Star
  <2>1. code.kind = "*"
    BY <1>1 DEF Star
  <2> QED
    BY <2>1 DEF CodeMatches, Covers
<1>2. ASSUME NEW start \in Int, NEW end \in Int, code = Scope(start, end)
      PROVE  CodeMatches(code, n) <=> n \in Covers(code, top)
  <2>1. code.kind = "scope" /\ code.start = start /\ code.end = end
    BY <1>2 DEF Scope
  <2>2. CodeMatches(code, n) <=> n >= start /\ n <= end
    BY <2>1 DEF CodeMatches
  <2>3. Covers(code, top) = start .. end
    BY <2>1 DEF Covers
  <2>4. n \in start .. end <=> n >= start /\ n <= end
    OBVIOUS
  <2> QED
    BY <2>2, <2>3, <2>4
<1>3. ASSUME NEW start \in Int, code = Number(start)
      PROVE  CodeMatches(code, n) <=> n \in Covers(code, top)
  <2>1. code.kind = "number" /\ code.start = start /\ code.end = start
    BY <1>3 DEF Number
  <2>2. CodeMatches(code, n) <=> n = start
    BY <2>1 DEF CodeMatches
  <2>3. Covers(code, top) = start .. start
    BY <2>1 DEF Covers
  <2>4. n \in start .. start <=> n = start
    OBVIOUS
  <2> QED
    BY <2>2, <2>3, <2>4
<1> QED
  BY <1>1, <1>2, <1>3 DEF IsCode

(* The IPs of "size" numbers up to top that an entry of a list names. *)
NamedBy(entry, size, top) == {ip \in [1 .. size -> 0 .. top] : \A k \in 1 .. size : ip[k] \in Covers(entry[k], top)}

(* The lists of entries of "size" codes. *)
IsIpList(list, size) == \A i \in DOMAIN list : \A k \in 1 .. size : IsCode(list[i][k])

LEMMA ListNames ==
  ASSUME NEW size \in Nat, NEW top \in Nat, NEW list, IsIpList(list, size),
         NEW ip \in [1 .. size -> 0 .. top]
  PROVE  IsIncludeIp(ip, list) <=> list = <<>> \/ \E i \in DOMAIN list : ip \in NamedBy(list[i], size, top)
<1>1. ASSUME NEW i \in DOMAIN list
      PROVE  (\A k \in DOMAIN ip : CodeMatches(list[i][k], ip[k])) <=> ip \in NamedBy(list[i], size, top)
  <2>1. DOMAIN ip = 1 .. size /\ \A k \in 1 .. size : ip[k] \in 0 .. top
    OBVIOUS
  <2>2. \A k \in 1 .. size : IsCode(list[i][k])
    BY DEF IsIpList
  <2>3. \A k \in 1 .. size : CodeMatches(list[i][k], ip[k]) <=> ip[k] \in Covers(list[i][k], top)
    BY <2>1, <2>2, CodeCovers
  <2> QED
    BY <2>1, <2>3 DEF NamedBy
<1> QED
  BY <1>1 DEF IsIncludeIp

(* An IP of any length is let through exactly when the white list names it,  *)
(* or is empty, and the black list does not name it (check_white_blacklist   *)
(* of common/utils.py).                                                      *)
THEOREM AccessIsRuled ==
  ASSUME NEW size \in Nat, NEW top \in Nat,
         NEW whitelist, IsIpList(whitelist, size), NEW blacklist, IsIpList(blacklist, size),
         NEW ip \in [1 .. size -> 0 .. top]
  PROVE  CheckWhiteBlacklist(ip, whitelist, blacklist) <=>
           /\ whitelist = <<>> \/ \E i \in DOMAIN whitelist : ip \in NamedBy(whitelist[i], size, top)
           /\ ~ \E i \in DOMAIN blacklist : ip \in NamedBy(blacklist[i], size, top)
<1>1. IsIncludeIp(ip, whitelist) <=>
        whitelist = <<>> \/ \E i \in DOMAIN whitelist : ip \in NamedBy(whitelist[i], size, top)
  BY ListNames
<1>2. IsIncludeIp(ip, blacklist) <=>
        blacklist = <<>> \/ \E i \in DOMAIN blacklist : ip \in NamedBy(blacklist[i], size, top)
  BY ListNames
<1>3. DOMAIN <<>> = {}
  OBVIOUS
<1> QED
  BY <1>1, <1>2, <1>3 DEF CheckWhiteBlacklist

----------------------------------------------------------------------------
(* The inputs MCRequestCheck builds. *)

BodyType ==
  /\ DOMAIN body \subseteq DOMAIN Values
  /\ \A key \in DOMAIN body : body[key] \in Values[key]

TypeOK == BodyType /\ white \in Seq(Entries) /\ black \in Seq(Entries)

LEMMA TypeInit == Init => TypeOK
<1>1. DOMAIN <<>> = {} /\ <<>> \in Seq(Entries)
  OBVIOUS
<1> QED
  BY <1>1 DEF Init, TypeOK, BodyType

LEMMA TypeNext == TypeOK /\ [AddKey \/ AddEntry]_vars => TypeOK'
<1> SUFFICES ASSUME TypeOK, [AddKey \/ AddEntry]_vars PROVE TypeOK'
  OBVIOUS
<1>1. CASE AddKey
  <2>1. PICK key \in DOMAIN Values \ DOMAIN body : \E value \in Values[key] :
            body' = [k \in DOMAIN body \cup {key} |-> IF k = key THEN value ELSE body[k]]
    BY <1>1 DEF AddKey
  <2>2. PICK value \in Values[key] : body' = [k \in DOMAIN body \cup {key} |-> IF k = key THEN value ELSE body[k]]
    BY <2>1
  <2>3. /\ DOMAIN body' = DOMAIN body \cup {key}
        /\ body'[key] = value
        /\ \A k \in DOMAIN body : body'[k] = body[k]
    BY <2>1, <2>2
  <2>4. BodyType'
    BY <2>2, <2>3 DEF TypeOK, BodyType
  <2> QED
    BY <1>1, <2>4 DEF AddKey, TypeOK
<1>2. CASE AddEntry
  <2>1. PICK entry \in Entries : \/ white' = Append(white, entry) /\ UNCHANGED black
                                 \/ black' = Append(black, entry) /\ UNCHANGED white
    BY <1>2 DEF AddEntry
  <2>2. body' = body
    BY <1>2 DEF AddEntry
  <2> HIDE DEF Entries
  <2>3. white' \in Seq(Entries) /\ black' \in Seq(Entries)
    <3>1. white \in Seq(Entries) /\ black \in Seq(Entries)
      BY DEF TypeOK
    <3>2. Append(white, entry) \in Seq(Entries) /\ Append(black, entry) \in Seq(Entries)
      BY <2>1, <3>1
    <3> QED
      BY <2>1, <3>1, <3>2
  <2> QED
    BY <2>2, <2>3 DEF TypeOK, BodyType
<1>3. CASE UNCHANGED vars
  BY <1>3 DEF vars, TypeOK, BodyType
<1> QED
  BY <1>1, <1>2, <1>3

LEMMA TypeInvariance == Spec => []TypeOK
BY TypeInit, TypeNext, PTL DEF Spec

LEMMA BodiesAreBodies == TypeOK => IsBody(body)
<1> SUFFICES ASSUME TypeOK PROVE IsBody(body)
  OBVIOUS
<1>1. \A t \in Targets : IsValue(t)
  BY DEF Targets, Localhost, Host, IsValue, Text, Dict, Scalar
<1>2. IsValue(Text("a", {})) /\ Text("a", {}).kind # "list" /\ IsValue(Scalar) /\ Scalar.kind # "list"
  BY DEF IsValue, Text, Scalar
<1>3. ASSUME NEW value \in Values.targets
      PROVE  IsValue(value) /\ (value.kind = "list" => \A i \in DOMAIN value.items : IsValue(value.items[i]))
  <2>1. CASE value \in Targets
    <3>1. value.kind # "list"
      BY <2>1 DEF Targets, Localhost, Host, Text, Dict, Scalar
    <3> QED
      BY <1>1, <2>1, <3>1
  <2>2. ASSUME NEW s, s = <<>> \/ (\E t \in Targets : s = <<t>>) \/ s \in Targets \X Targets, value = List(s)
        PROVE  IsValue(value) /\ (value.kind = "list" => \A i \in DOMAIN value.items : IsValue(value.items[i]))
    <3>1. value.kind = "list" /\ value.items = s
      BY <2>2 DEF List
    <3> HIDE DEF Targets
    <3>2. \A i \in DOMAIN s : s[i] \in Targets
      BY <2>2
    <3> QED
      BY <1>1, <3>1, <3>2 DEF IsValue
  <2> HIDE DEF Targets
  <2>3. value \in Targets \/ \E s \in {<<>>} \cup {<<t>> : t \in Targets} \cup Targets \X Targets : value = List(s)
    BY DEF Values
  <2> QED
    BY <2>1, <2>2, <2>3
<1>4. ASSUME NEW value \in Values.module
      PROVE  IsValue(value) /\ (value.kind = "list" => \A i \in DOMAIN value.items : IsValue(value.items[i]))
  <2>1. IsValue(Text("name", {"name"})) /\ IsValue(Text("args", {"args"}))
    BY DEF IsValue, Text
  <2>2. value \in {Scalar, Text("shell", {}), Dict({"name"}), Ping}
        \/ value = List(<<Text("name", {"name"})>>)
        \/ value = List(<<Text("name", {"name"}), Text("args", {"args"})>>)
    BY DEF Values
  <2>3. CASE value \in {Scalar, Text("shell", {}), Dict({"name"}), Ping}
    BY <2>3 DEF Ping, IsValue, Text, Dict, Scalar
  <2>4. CASE value = List(<<Text("name", {"name"})>>)
    <3>1. value.kind = "list" /\ value.items = <<Text("name", {"name"})>>
      BY <2>4 DEF List
    <3>2. \A i \in DOMAIN value.items : value.items[i] = Text("name", {"name"})
      BY <3>1
    <3> QED
      BY <2>1, <3>1, <3>2 DEF IsValue
  <2>5. CASE value = List(<<Text("name", {"name"}), Text("args", {"args"})>>)
    <3>1. value.kind = "list" /\ value.items = <<Text("name", {"name"}), Text("args", {"args"})>>
      BY <2>5 DEF List
    <3>2. \A i \in DOMAIN value.items : value.items[i] = Text("name", {"name"}) \/ value.items[i] = Text("args", {"args"})
      BY <3>1
    <3> QED
      BY <2>1, <3>1, <3>2 DEF IsValue
  <2> QED
    BY <2>2, <2>3, <2>4, <2>5
<1>5. ASSUME NEW value \in Values.script
      PROVE  IsValue(value) /\ value.kind # "list"
  <2>1. value \in {Dict({"type"}), Shell, Text("type of content", {"type", "content"})}
    BY DEF Values
  <2>2. Dict({"type"}).kind = "dict" /\ Shell.kind = "dict" /\ Text("type of content", {"type", "content"}).kind = "text"
    BY DEF Shell, Text, Dict
  <2>3. value.kind \in {"dict", "text"}
    BY <2>1, <2>2
  <2> QED
    BY <2>3 DEF IsValue
<1>6. \A k \in DOMAIN body : k \in {"queue", "response", "taskNodeId", "targets", "module", "script"} /\ body[k] \in Values[k]
  BY DEF TypeOK, BodyType, Values
<1>7. /\ Values["queue"] = {Text("a", {})} /\ Values["response"] = {Text("a", {})} /\ Values["taskNodeId"] = {Scalar}
      /\ Values["targets"] = Values.targets /\ Values["module"] = Values.module /\ Values["script"] = Values.script
  BY DEF Values
<1> HIDE DEF Values
<1>8. ASSUME NEW k \in DOMAIN body
      PROVE  IsValue(body[k]) /\ (body[k].kind = "list" => \A i \in DOMAIN body[k].items : IsValue(body[k].items[i]))
  <2>1. CASE k \in {"queue", "response", "taskNodeId"}
    BY <1>2, <1>6, <1>7, <2>1
  <2>2. CASE k = "targets"
    BY <1>3, <1>6, <1>7, <2>2
  <2>3. CASE k = "module"
    BY <1>4, <1>6, <1>7, <2>3
  <2>4. CASE k = "script"
    BY <1>5, <1>6, <1>7, <2>4
  <2> QED
    BY <1>6, <2>1, <2>2, <2>3, <2>4
<1> QED
  BY <1>8 DEF IsBody

(* Every body MCRequestCheck builds is checked as the rule of /job/submit    *)
(* says.                                                                     *)
THEOREM BodiesCheckedAsRuled == Spec => []RequestsCheckedAsRuled
<1>1. TypeOK => RequestsCheckedAsRuled
  BY SubmitIsRuled, BodiesAreBodies DEF RequestsCheckedAsRuled
<1> QED
  BY <1>1, TypeInvariance, PTL

LEMMA EntriesNamed ==
  ASSUME NEW list \in Seq(Entries)
  PROVE  /\ IsIpList(list, 2)
         /\ \A i \in DOMAIN list : NamedBy(list[i], 2, 2) = Meant(list[i][1]) \X Meant(list[i][2])
<1> DEFINE Codes == {Star, Number(1), Scope(0, 1), Scope(1, 2)}
<1>1. \A code \in Codes : IsCode(code) /\ Covers(code, 2) = Meant(code) /\ Meant(code) \subseteq 0 .. 2
  <2>1. IsCode(Star) /\ Covers(Star, 2) = Meant(Star) /\ Meant(Star) \subseteq 0 .. 2
    BY DEF IsCode, Covers, Meant, Star
  <2>2. IsCode(Number(1)) /\ Covers(Number(1), 2) = Meant(Number(1)) /\ Meant(Number(1)) \subseteq 0 .. 2
    BY DEF IsCode, Covers, Meant, Number
  <2>3. ASSUME NEW n \in 0 .. 1
        PROVE  IsCode(Scope(n, n + 1)) /\ Covers(Scope(n, n + 1), 2) = Meant(Scope(n, n + 1))
               /\ Meant(Scope(n, n + 1)) \subseteq 0 .. 2
    BY DEF IsCode, Covers, Meant, Scope
  <2>4. Scope(0, 1) = Scope(0, 0 + 1) /\ Scope(1, 2) = Scope(1, 1 + 1)
    OBVIOUS
  <2> QED
    BY <2>1, <2>2, <2>3, <2>4
<1>2. Entries = Codes \X Codes
  BY DEF Entries
<1> HIDE DEF Codes
<1>3. ASSUME NEW i \in DOMAIN list
      PROVE  /\ \A k \in 1 .. 2 : IsCode(list[i][k])
             /\ NamedBy(list[i], 2, 2) = Meant(list[i][1]) \X Meant(list[i][2])
  <2>1. list[i] \in Codes \X Codes
    BY <1>2
  <2>2. PICK one \in Codes, two \in Codes : list[i] = <<one, two>>
    BY <2>1
  <2>3. list[i][1] = one /\ list[i][2] = two /\ 1 .. 2 = {1, 2}
    BY <2>2
  <2>4. \A k \in 1 .. 2 : IsCode(list[i][k])
    BY <1>1, <2>3
  <2>5. ASSUME NEW ip PROVE ip \in NamedBy(list[i], 2, 2) <=> ip \in Meant(one) \X Meant(two)
    <3>1. ip \in NamedBy(list[i], 2, 2) <=>
            ip \in [1 .. 2 -> 0 .. 2] /\ ip[1] \in Meant(one) /\ ip[2] \in Meant(two)
      BY <1>1, <2>3 DEF NamedBy
    <3>2. ip \in [1 .. 2 -> 0 .. 2] <=> ip \in (0 .. 2) \X (0 .. 2)
      BY <2>3
    <3>3. Meant(one) \subseteq 0 .. 2 /\ Meant(two) \subseteq 0 .. 2
      BY <1>1
    <3> HIDE DEF Meant
    <3> QED
      BY <3>1, <3>2, <3>3
  <2> QED
    BY <2>3, <2>4, <2>5
<1> QED
  BY <1>3 DEF IsIpList

(* The lists MCRequestCheck builds admit the IPs they name.                  *)
THEOREM ListsAdmitAsConfigured == Spec => []AccessAsConfigured
<1>1. TypeOK => AccessAsConfigured
  <2> SUFFICES ASSUME TypeOK PROVE AccessAsConfigured
    OBVIOUS
  <2>1. white \in Seq(Entries) /\ black \in Seq(Entries)
    BY DEF TypeOK
  <2>2. SmallIps = [1 .. 2 -> 0 .. 2]
    BY DEF SmallIps
  <2>3. ASSUME NEW ip \in SmallIps, NEW list \in Seq(Entries)
        PROVE  ip \in IpsOf(list) <=> \E i \in DOMAIN list : ip \in NamedBy(list[i], 2, 2)
    BY EntriesNamed DEF IpsOf
  <2>4. ASSUME NEW ip \in SmallIps
        PROVE  CheckWhiteBlacklist(ip, white, black) <=>
                 (white = <<>> \/ ip \in IpsOf(white)) /\ ip \notin IpsOf(black)
    <3>1. IsIpList(white, 2) /\ IsIpList(black, 2)
      BY <2>1, EntriesNamed
    <3>2. ip \in [1 .. 2 -> 0 .. 2] /\ 2 \in Nat
      BY <2>2
    <3>3. CheckWhiteBlacklist(ip, white, black) <=>
            /\ white = <<>> \/ \E i \in DOMAIN white : ip \in NamedBy(white[i], 2, 2)
            /\ ~ \E i \in DOMAIN black : ip \in NamedBy(black[i], 2, 2)
      BY <3>1, <3>2, AccessIsRuled
    <3> QED
      BY <2>1, <2>3, <3>3
  <2>5. IpsOf(white) \subseteq SmallIps
    <3>1. ASSUME NEW i \in DOMAIN white PROVE Meant(white[i][1]) \X Meant(white[i][2]) \subseteq SmallIps
      BY <2>1, <2>2, EntriesNamed DEF NamedBy
    <3> QED
      BY <3>1 DEF IpsOf
  <2> HIDE DEF SmallIps
  <2> QED
    BY <2>4, <2>5 DEF AccessAsConfigured
<1> QED
  BY <1>1, TypeInvariance, PTL
=============================================================================
