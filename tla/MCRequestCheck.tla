--------------------------- MODULE MCRequestCheck ---------------------------
(***************************************************************************)
(* RequestCheck on every small input: a request that is given one key at a *)
(* time, and a pair of IP lists that is given one entry at a time.         *)
(***************************************************************************)
EXTENDS RequestCheck

VARIABLES
  body,          \* request.json
  white, black   \* the lists of the configuration
vars == <<body, white, black>>

Host == Dict({"host"})
Localhost == Text("localhost", {"host"})
Ping == Dict({"name", "args"})
Shell == Dict({"type", "content"})
IdKeys == {"queue", "response", "taskNodeId"}
Targets == {Host, Dict({}), Localhost, Text("host", {"host"}), Text("ip", {}), Scalar}
Values ==
  [queue |-> {Text("a", {})}, response |-> {Text("a", {})}, taskNodeId |-> {Scalar},
   targets |-> Targets \cup {List(s) : s \in {<<>>} \cup {<<t>> : t \in Targets} \cup Targets \X Targets},
   module |-> {Scalar, Text("shell", {}), Dict({"name"}), Ping,
               List(<<Text("name", {"name"})>>), List(<<Text("name", {"name"}), Text("args", {"args"})>>)},
   script |-> {Dict({"type"}), Shell, Text("type of content", {"type", "content"})}]

(* IPs of two codes below 3. *)
SmallIps == (0 .. 2) \X (0 .. 2)
Entries == {Star, Number(1), Scope(0, 1), Scope(1, 2)} \X {Star, Number(1), Scope(0, 1), Scope(1, 2)}
MaxEntries == 2   \* bound: the entries of the two lists

Init == body = <<>> /\ white = <<>> /\ black = <<>>

AddKey ==
  /\ white = <<>> /\ black = <<>>
  /\ \E key \in DOMAIN Values \ DOMAIN body : \E value \in Values[key] :
       body' = [k \in DOMAIN body \cup {key} |-> IF k = key THEN value ELSE body[k]]
  /\ UNCHANGED <<white, black>>

AddEntry ==
  /\ body = <<>> /\ Len(white) + Len(black) < MaxEntries
  /\ \E entry \in Entries : \/ white' = Append(white, entry) /\ UNCHANGED black
                            \/ black' = Append(black, entry) /\ UNCHANGED white
  /\ UNCHANGED body

Spec == Init /\ [][AddKey \/ AddEntry]_vars

(* What passes for an object with some keys: such an object and, as the code  *)
(* does not ask whether it has an object, a text in which they all occur, or  *)
(* a list with these texts.                                                   *)
Holds(value, names) ==
  \/ value.kind = "dict" /\ names \subseteq value.keys
  \/ value.kind = "text" /\ names \subseteq value.names
  \/ /\ value.kind = "list"
     /\ \A n \in names : \E i \in DOMAIN value.items : value.items[i].kind = "text" /\ value.items[i].text = n

TargetsHaveHost(value) ==
  IF value.kind = "list" THEN \A i \in DOMAIN value.items : Holds(value.items[i], {"host"})
  ELSE Holds(value, {"host"})

(* /job/submit accepts what names the job, gives every target a host and      *)
(* asks for a module or a script, one of the two and with all its keys; of a  *)
(* request for a single target, which is no list, the work is not looked at.  *)
(* It lets "targets": "localhost" through, in which "host" occurs, and        *)
(* "module": ["name", "args"].                                                *)
RequestsCheckedAsRuled ==
  CheckRequestItems(api_request.submit, body) <=>
    /\ DOMAIN body \cap IdKeys # {}
    /\ "targets" \in DOMAIN body /\ TargetsHaveHost(body.targets)
    /\ body.targets.kind = "list" =>
         \/ "script" \notin DOMAIN body /\ "module" \in DOMAIN body /\ Holds(body.module, {"name", "args"})
         \/ "module" \notin DOMAIN body /\ "script" \in DOMAIN body /\ Holds(body.script, {"type", "content"})

Meant(code) == IF code.kind = "*" THEN 0 .. 2 ELSE code.start .. code.end
IpsOf(list) == UNION {Meant(list[i][1]) \X Meant(list[i][2]) : i \in DOMAIN list}

(* The white list admits its IPs, or all when it is empty, without those of  *)
(* the black list; both ends of a scope belong to it.                         *)
AccessAsConfigured ==
  {ip \in SmallIps : CheckWhiteBlacklist(ip, white, black)}
    = (IF white = <<>> THEN SmallIps ELSE IpsOf(white)) \ IpsOf(black)
=============================================================================
