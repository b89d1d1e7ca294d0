---------------------------- MODULE RequestCheck ----------------------------
(***************************************************************************)
(* What the web server checks of a request before it accepts it:           *)
(* BaseHandler.check_request (base_handler.py) against the rules of        *)
(* api_request, and check_white_blacklist (common/utils.py) against the    *)
(* two IP lists of the configuration.  Operators only; Worker uses them.   *)
(*                                                                         *)
(* The body of a request is a function from its keys to their values.  A    *)
(* value is a text, known by the names of the rules that occur in it, an    *)
(* object, known by its keys, a list of values, or a scalar (number,        *)
(* boolean, null).                                                          *)
(***************************************************************************)
EXTENDS Integers, SequencesExt

Text(t, names) == [kind |-> "text", text |-> t, names |-> names]
Dict(keys) == [kind |-> "dict", keys |-> keys]
List(items) == [kind |-> "list", items |-> items]
Scalar == [kind |-> "scalar"]

----------------------------------------------------------------------------
(* api_request: an item of "necessary" is a key, a tuple of keys of which   *)
(* one is enough, or a key whose value has a rule of its own.               *)

Key(k) == [kind |-> "key", keys |-> {k}, child |-> {}]
OneOf(ks) == [kind |-> "one of", keys |-> ks, child |-> {}]
Child(k, ks) == [kind |-> "child", keys |-> {k}, child |-> ks]

(* The rules of /job/submit, /server/status/scan and /logview. *)
api_request ==
  [submit |-> [necessary |-> <<OneOf({"queue", "response", "taskNodeId"}), Child("targets", {"host"})>>,
               opt_sole |-> [module |-> {"name", "args"}, script |-> {"type", "content"}]],
   scan   |-> [necessary |-> <<Key("queue"), Key("targets")>>, opt_sole |-> <<>>],
   logview |-> [necessary |-> <<Key("filepath"), Key("target")>>, opt_sole |-> <<>>]]

(* The names Python's "in" finds in a value: the keys of an object, what     *)
(* occurs in a text, the items of a list that are that text.  In a scalar it *)
(* finds nothing: it raises, and the request is answered with an error.      *)
NamesIn(value) ==
  CASE value.kind = "dict" -> value.keys
    [] value.kind = "text" -> value.names
    [] value.kind = "list" -> {item.text : item \in {i \in Range(value.items) : i.kind = "text"}}
    [] value.kind = "scalar" -> {}

(* Mutant: the loop over a list ends with its first item. *)
ChildFirstOnly(arg, value) ==
  IF value.kind # "list" THEN IF arg.child \subseteq NamesIn(value) THEN "valid" ELSE "invalid"
  ELSE IF value.items = <<>> \/ arg.child \subseteq NamesIn(value.items[1]) THEN "go on" ELSE "invalid"

(* The value of a key with a rule of its own: every item of a list is       *)
(* checked, of whatever kind; the verdict on anything else is returned for  *)
(* the whole request.                                                       *)
CheckChild(arg, value) ==
  IF value.kind # "list" THEN IF arg.child \subseteq NamesIn(value) THEN "valid" ELSE "invalid"
  ELSE IF \A i \in DOMAIN value.items : arg.child \subseteq NamesIn(value.items[i]) THEN "go on" ELSE "invalid"

CheckArg(arg, request) ==
  IF arg.keys \cap DOMAIN request = {} THEN "invalid"
  ELSE IF arg.kind = "child" THEN CheckChild(arg, request[CHOOSE k \in arg.keys : TRUE])
  ELSE "go on"

(* for arg in rule["necessary"]: the first verdict that ends the loop stands. *)
CheckNecessary(rule, request) ==
  FoldLeft(LAMBDA verdict, arg : IF verdict = "go on" THEN CheckArg(arg, request) ELSE verdict,
           "go on", rule.necessary)

(* Mutant: a second option is not looked for. *)
OptSoleAny(rule, request) ==
  DOMAIN rule.opt_sole = {}
  \/ \E o \in DOMAIN rule.opt_sole \cap DOMAIN request : rule.opt_sole[o] \subseteq NamesIn(request[o])

(* Exactly one of the options is given, with all it needs. *)
CheckOptSole(rule, request) ==
  LET given == DOMAIN rule.opt_sole \cap DOMAIN request
  IN \/ DOMAIN rule.opt_sole = {}
     \/ /\ Cardinality(given) = 1
        /\ \A o \in given : rule.opt_sole[o] \subseteq NamesIn(request[o])

CheckRequestItems(rule, request) ==
  LET verdict == CheckNecessary(rule, request)
  IN \/ verdict = "valid"
     \/ verdict = "go on" /\ CheckOptSole(rule, request)

----------------------------------------------------------------------------
(* An IP is a sequence of numbers, an entry of a list one of codes: a       *)
(* number, "*" or a scope "start-end".                                      *)

Scope(start, end) == [kind |-> "scope", start |-> start, end |-> end]
Number(n) == [kind |-> "number", start |-> n, end |-> n]
Star == [kind |-> "*", start |-> 0, end |-> 0]

(* Mutant: the end of a scope is excluded, as in a range. *)
CodeMatchesRange(code, n) ==
  CASE code.kind = "scope" -> n >= code.start /\ n < code.end
    [] OTHER -> code.kind = "*" \/ n = code.start

CodeMatches(code, n) ==
  CASE code.kind = "scope" -> n >= code.start /\ n <= code.end
    [] OTHER -> code.kind = "*" \/ n = code.start

(* An empty list includes every IP. *)
IsIncludeIp(ip, iplist) ==
  \/ iplist = <<>>
  \/ \E i \in DOMAIN iplist : \A k \in DOMAIN ip : CodeMatches(iplist[i][k], ip[k])

CheckWhiteBlacklist(ip, whitelist, blacklist) ==
  /\ ~(blacklist # <<>> /\ IsIncludeIp(ip, blacklist))
  /\ IsIncludeIp(ip, whitelist)
=============================================================================
