-------------------------------- MODULE Wire --------------------------------
(***************************************************************************)
(* What travels between a client and the server: JSONRPCClient.call of     *)
(* jsonrpc.go with the sealing of sensitive strings, and the search for    *)
(* plaintext that main's observer makes in every request and response      *)
(* (telemetry.go).                                                         *)
(*                                                                         *)
(* A JSON document is the function from the paths of its strings to these  *)
(* strings; each step of a path goes down to a key of an object or to an   *)
(* item of a list.  A string is its text and the token it is sealed with:  *)
(* "" if it has no prefix "ht1:", and "none" if it has the prefix though   *)
(* nobody has sealed it.  What the code's recursions do is said of paths   *)
(* here; WireTrees has the recursions.                                     *)
(*                                                                         *)
(* The server is external: it opens with the token of the Authorization    *)
(* header, and answers sealed, in plain, or sealed with a token the client *)
(* does not expect.  An answer may arrive cut off, which is no JSON.       *)
(***************************************************************************)
EXTENDS Integers, Sequences

CONSTANTS
  Tokens,      \* session tokens the server gives out
  Params,      \* documents sent as parameters
  Answers,     \* documents the server answers with
  Parts,       \* pairs of strings of which the second contains the first
  MaxCalls     \* bound on the calls of a client

VARIABLES
  token,       \* the client's token, "" before it has one
  probes,      \* strings registered with the collector
  calls,       \* calls made
  at,          \* how far the call in progress is
  request,     \* what it sends
  reply,       \* what the server makes of it and answers
  outcome      \* what the client and its observer make of the answer

wireVars == <<token, probes, calls, at, request, reply, outcome>>

-----------------------------------------------------------------------------
(* JSON documents.                                                         *)

Step == [key : STRING] \cup [item : Nat]
IsDocument(value) ==
  DOMAIN value \subseteq Seq(Step) /\ value \in [DOMAIN value -> [text : STRING, key : STRING]]

IsKey(step) == "key" \in DOMAIN step
Nothing == [path \in {} |-> ""]

(* The texts written by the harness and the server are nobody's seals.     *)
ASSUME DocumentsAssumption ==
  \A value \in Params \cup Answers :
    IsDocument(value) /\ \A path \in DOMAIN value : value[path].key \in {"", "none"}

(* An empty text contains no other.                                        *)
ASSUME PartsAssumption == \A pair \in Parts : pair[2].text # ""

ASSUME TokensAssumption == Tokens \cap {"", "none", "sealed", "plain"} = {}

-----------------------------------------------------------------------------
(* Sealing and opening.                                                    *)

(* Operators whose name has an underscore are faults: variants of the      *)
(* definition they are named for that the checks tell apart from the code. *)
sensitiveKey_Forgets(key) == key = "content"

sensitiveKey(key) ==
  key \in
    {"content", "title", "summary", "bio", "description", "purpose", "topics", "topic", "tags",
     "rules", "current_work", "limitations", "reason", "interests", "capabilities",
     "collaboration_topics"}
Sensitive(step) == IsKey(step) /\ sensitiveKey(step.key)

(* Below a list under a sensitive key, only its own strings are handled:   *)
(* what is in its other items is passed over.                              *)
PassedOver(path) ==
  \E i \in 1..Len(path) - 2 : Sensitive(path[i]) /\ ~IsKey(path[i + 1])

(* protectValue reaches the strings under sensitive keys, and in lists     *)
(* under such keys.                                                        *)
Protected(path) ==
  LET n == Len(path)
  IN  /\ ~PassedOver(path)
      /\ \/ n > 0 /\ Sensitive(path[n])
         \/ n > 1 /\ ~IsKey(path[n]) /\ Sensitive(path[n - 1])

Reached(value) == {value[path] : path \in {p \in DOMAIN value : Protected(p)}}

protectString_Seals(s, tok, encrypt) ==
  [text |-> s.text, key |-> IF s.key = "" THEN tok ELSE s.key]

(* protectString seals what has no prefix yet, or opens what has one.  It  *)
(* fails if the token is not the right one.                                *)
protectString(s, tok, encrypt) ==
  [text |-> s.text,
   key |-> CASE encrypt /\ s.key = "" -> tok
             [] ~encrypt /\ s.key = tok -> ""
             [] OTHER -> s.key]
Opens(s, tok) == s.key \in {"", tok}

protectValue(value, tok, encrypt) ==
  [path \in DOMAIN value |->
     IF Protected(path) THEN protectString(value[path], tok, encrypt) ELSE value[path]]

(* protectJSON leaves everything alone without a token.                    *)
Seal(value, tok) == IF tok = "" THEN value ELSE protectValue(value, tok, TRUE)
CanOpen(value, tok) == tok = "" \/ \A s \in Reached(value) : Opens(s, tok)
Open(value, tok) == IF tok = "" THEN value ELSE protectValue(value, tok, FALSE)

-----------------------------------------------------------------------------
(* The search for plaintext.                                               *)

protectedWireKey_Forgets(key) == key = "content"

(* The collector's own list of the sensitive keys.                         *)
protectedWireKey(key) ==
  key \in
    {"content", "title", "summary", "bio", "description", "purpose", "topics", "topic", "tags",
     "rules", "current_work", "limitations", "reason", "interests", "capabilities",
     "collaboration_topics"}

(* A string is compared with the probes if the key closest to it is a      *)
(* protected one, through lists of lists if need be.                       *)
Searched(path) ==
  \E i \in 1..Len(path) :
    /\ IsKey(path[i]) /\ protectedWireKey(path[i].key)
    /\ \A j \in i + 1..Len(path) : ~IsKey(path[j])

(* What can be read of a body that is not JSON: the strings nobody sealed, *)
(* under whatever key, and the keys.  A string contains itself, and with   *)
(* the prefix also the text without it.                                    *)
Holds(s, probe) ==
  (probe.text = s.text /\ probe.key \in {"", s.key}) \/ <<probe, s>> \in Parts
KeysOf(path) == {[text |-> path[i].key, key |-> ""] : i \in {j \in 1..Len(path) : IsKey(path[j])}}
Legible(body) ==
  {body[path] : path \in {p \in DOMAIN body : body[p].key \in {"", "none"}}}
    \cup UNION {KeysOf(path) : path \in DOMAIN body}
Readable(body) == \E probe \in probes : \E s \in Legible(body) : Holds(s, probe)

ContainsPlaintext(body, isJSON) ==
  IF isJSON THEN \E path \in DOMAIN body : Searched(path) /\ body[path] \in probes ELSE Readable(body)

-----------------------------------------------------------------------------
(* A call.                                                                 *)

NoReply ==
  [answer |-> Nothing, style |-> "sealed", body |-> Nothing, whole |-> TRUE, heard |-> Nothing,
   granted |-> ""]
NoOutcome == [ok |-> TRUE, result |-> Nothing, plaintext |-> FALSE]

WireInit ==
  /\ token = "" /\ probes = {} /\ calls = 0
  /\ at = "returned"
  /\ request = [operation |-> "none", token |-> "", params |-> Nothing, body |-> Nothing]
  /\ reply = NoReply /\ outcome = NoOutcome

(* The harness may register what it writes, but for empty texts, before it *)
(* calls: some operations register every text, some register none, and     *)
(* probe passes over short ones.  call reads the token once, seals with it *)
(* and names it in the header.                                             *)
Begin(operation, params) ==
  /\ at = "returned" /\ calls < MaxCalls
  /\ at' = "requested" /\ calls' = calls + 1
  /\ \E registered \in SUBSET {s \in Reached(params) : s.text # ""} : probes' = probes \cup registered
  /\ request' = [operation |-> operation, token |-> token, params |-> params,
                 body |-> Seal(params, token)]
  /\ reply' = NoReply /\ outcome' = NoOutcome
  /\ UNCHANGED token

Respond(answer, style, tok) ==
  CASE style = "sealed" -> Seal(answer, tok)
    [] style = "plain" -> answer
    [] OTHER -> Seal(answer, style)

(* The server opens the request and answers.  To CreateOrLoadIdentity it   *)
(* answers with a token too, the same as before or a new one.              *)
Serve(style, answer, grant) ==
  /\ at = "requested" /\ at' = "answered"
  /\ grant # "" => request.operation = "CreateOrLoadIdentity"
  /\ reply' = [answer |-> answer, style |-> style, body |-> Respond(answer, style, request.token),
               whole |-> TRUE, heard |-> Open(request.body, request.token), granted |-> grant]
  /\ UNCHANGED <<token, probes, calls, request, outcome>>

(* The answer arrives: it is opened with the token the call began with,    *)
(* and the observer searches request and response.  An answer that cannot  *)
(* be opened, or not be decoded, is an error; a new token is taken over    *)
(* even if the rest of the answer could not be decoded.                    *)
Return ==
  /\ at = "answered" /\ at' = "returned"
  /\ \E decoded \in BOOLEAN :
       LET opened == CanOpen(reply.body, request.token)
           ok == opened /\ decoded
           granted == IF opened /\ reply.granted # "" THEN {reply.granted} ELSE {}
       IN  /\ outcome' = [
                ok |-> ok,
                result |-> IF ok THEN Open(reply.body, request.token) ELSE Nothing,
                plaintext |-> \/ ContainsPlaintext(request.body, TRUE)
                              \/ ContainsPlaintext(reply.body, TRUE)]
           /\ token' \in IF ok /\ granted # {} THEN granted ELSE granted \cup {token}
  /\ UNCHANGED <<probes, calls, request, reply>>

(* Request or answer is lost, or the answer arrives cut off: the observer  *)
(* searches the strings that came, the last of them perhaps incomplete.    *)
Cut == [text |-> "", key |-> ""]
CutOff(body) ==
  UNION {{[path \in arrived |-> IF path = last THEN Cut ELSE body[path]] :
            last \in arrived \cup {<<>>}} : arrived \in SUBSET DOMAIN body}
Lose ==
  /\ at \in {"requested", "answered"} /\ at' = "returned"
  /\ \E body \in CutOff(reply.body) :
       /\ reply' = [reply EXCEPT !.body = body, !.whole = FALSE]
       /\ outcome' = [
            ok |-> FALSE, result |-> Nothing,
            plaintext |-> ContainsPlaintext(request.body, TRUE) \/ ContainsPlaintext(body, FALSE)]
  /\ UNCHANGED <<token, probes, calls, request>>

(* The operations of the contract, each of them one call: what matters     *)
(* here is whether it returns a token, sends content, or returns content.  *)
CreateOrLoadIdentity == Begin("CreateOrLoadIdentity", Nothing)
Write == \E params \in Params : Begin("Write", params)
Read == Begin("Read", Nothing)

WireNext ==
  \/ CreateOrLoadIdentity
  \/ Write
  \/ Read
  \/ /\ at = "requested"
     /\ \E style \in {"sealed", "plain"} \cup Tokens, grant \in Tokens \cup {""} :
          \E answer \in IF request.operation = "Read" THEN Answers ELSE {Nothing} :
            Serve(style, answer, grant)
  \/ Return
  \/ Lose

WireSpec == WireInit /\ [][WireNext]_wireVars

-----------------------------------------------------------------------------
(* Properties.                                                             *)

Unprefixed(value) == \A s \in Reached(value) : s.key = ""

(* Both sides get what the other one meant, whatever the nesting, as long  *)
(* as no text already looks sealed: sealing and opening are inverse, and   *)
(* what was sealed with the call's token can always be opened              *)
(* (jsonrpc.go:57-67, 108-116, 147-222).                                   *)
RoundTrip ==
  /\ at = "answered" /\ Unprefixed(request.params) => reply.heard = request.params
  /\ at = "answered" /\ reply.style = "sealed" /\ Unprefixed(reply.answer) =>
       CanOpen(reply.body, request.token)
  /\ at = "returned" /\ reply.style = "sealed" /\ Unprefixed(reply.answer) /\ outcome.ok =>
       outcome.result = reply.answer

(* A registered string that sealing leaves alone where the search looks:   *)
(* it is passed over, or begins with "ht1:".                               *)
Overlooked(value) ==
  \E path \in DOMAIN value : value[path] \in probes /\ (PassedOver(path) \/ value[path].key = "none")

(* A registered string in what is left to be read of a sealed document.    *)
Exposed(value) ==
  \E path \in DOMAIN value, probe \in probes :
    \/ (~Protected(path) \/ value[path].key = "none") /\ Holds(value[path], probe)
    \/ \E s \in KeysOf(path) : Holds(s, probe)

(* The search for plaintext blames an exchange that both sides have sealed *)
(* only for a registered string that protectValue leaves alone under a     *)
(* sensitive key, or if the answer was cut off: then also for a registered *)
(* string that stands where nothing is sealed, in a key even.  What has    *)
(* been sealed is never taken for plaintext (jsonrpc.go:86-96, 147-222;    *)
(* telemetry.go:273-328).                                                  *)
SealedBlameHasCause ==
  at = "returned" /\ request.token # "" /\ reply.style # "plain" /\ outcome.plaintext =>
    \/ Overlooked(request.params)
    \/ reply.whole /\ Overlooked(reply.answer)
    \/ ~reply.whole /\ Exposed(reply.answer)

(* Every registered string that stands where the client would seal it is   *)
(* found when it travels in plain, in either direction.  telemetry.go:318  *)
(* says that protectedWireKey "mirrors the contract's content-bearing      *)
(* fields"; it is a second list, kept apart from the transport's.          *)
ReadableIsBlamed ==
  at = "returned" /\ (Reached(request.body) \cup Reached(reply.body)) \cap probes # {}
    => outcome.plaintext

=============================================================================
