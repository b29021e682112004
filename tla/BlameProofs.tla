----------------------------- MODULE BlameProofs -----------------------------
(***************************************************************************)
(* Whom the benchmark may blame.  Of Wire: what holds of every client's    *)
(* calls, whatever it sends and is answered; sealing and opening are       *)
(* inverse, and the search for plaintext looks where the sealing does.     *)
(* Of Conformance: only who has committed an access control violation is   *)
(* accused of one.                                                         *)
(***************************************************************************)
EXTENDS Wire, Conformance, SequenceTheorems, WellFoundedInduction, TLAPS

-----------------------------------------------------------------------------
(* The two lists of keys agree, and so do the two walks.                   *)

LEMMA ListsAgree == \A key : sensitiveKey(key) <=> protectedWireKey(key)
BY DEF sensitiveKey, protectedWireKey

(* The search looks at what protectValue reaches,                          *)
LEMMA ProtectedIsSearched ==
  ASSUME NEW path \in Seq(Step), Protected(path)
  PROVE  Searched(path)
<1> DEFINE n == Len(path)
<1>1. n \in Nat
  OBVIOUS
<1>2. CASE n > 0 /\ Sensitive(path[n])
  <2>1. n \in 1..n /\ n + 1..n = {}
    BY <1>1, <1>2
  <2>2. IsKey(path[n]) /\ protectedWireKey(path[n].key)
    BY <1>2, ListsAgree DEF Sensitive
  <2> QED
    BY <2>1, <2>2 DEF Searched
<1>3. CASE n > 1 /\ ~IsKey(path[n]) /\ Sensitive(path[n - 1])
  <2>1. n - 1 \in 1..n /\ (n - 1) + 1..n = {n}
    BY <1>1, <1>3
  <2>2. IsKey(path[n - 1]) /\ protectedWireKey(path[n - 1].key)
    BY <1>3, ListsAgree DEF Sensitive
  <2> QED
    BY <1>3, <2>1, <2>2 DEF Searched
<1> QED
  BY <1>2, <1>3 DEF Protected

(* and protectValue reaches what the search looks at, but for what it      *)
(* passes over.                                                            *)
LEMMA SearchedIsProtected ==
  ASSUME NEW path \in Seq(Step), Searched(path), ~PassedOver(path)
  PROVE  Protected(path)
<1> DEFINE n == Len(path)
<1>1. n \in Nat
  OBVIOUS
<1>2. PICK i \in 1..n : /\ IsKey(path[i]) /\ protectedWireKey(path[i].key)
                        /\ \A j \in i + 1..n : ~IsKey(path[j])
  BY DEF Searched
<1>3. Sensitive(path[i])
  BY <1>2, ListsAgree DEF Sensitive
<1>4. CASE i = n
  BY <1>1, <1>2, <1>3, <1>4 DEF Protected
<1>5. CASE i = n - 1
  <2>1. n \in i + 1..n /\ n > 1
    BY <1>1, <1>2, <1>5
  <2>2. ~IsKey(path[n])
    BY <1>2, <2>1
  <2> QED
    BY <1>3, <1>5, <2>1, <2>2 DEF Protected
<1>6. CASE i < n - 1
  <2>1. i \in 1..n - 2 /\ i + 1 \in i + 1..n
    BY <1>1, <1>2, <1>6
  <2>2. PassedOver(path)
    BY <1>2, <1>3, <2>1 DEF PassedOver
  <2> QED
    BY <2>2
<1> QED
  BY <1>1, <1>2, <1>4, <1>5, <1>6

-----------------------------------------------------------------------------
(* Sealing and opening.                                                    *)

(* The documents the harness and the server write.                         *)
Written(value) ==
  IsDocument(value) /\ \A path \in DOMAIN value : value[path].key \in {"", "none"}

LEMMA NothingWritten == Written(Nothing) /\ DOMAIN Nothing = {}
BY DEF Written, IsDocument, Nothing

(* A written string that is sealed and opened is what it was.              *)
LEMMA StringComesBack ==
  ASSUME NEW s \in [text : STRING, key : STRING], s.key = "", NEW tok
  PROVE  /\ protectString(s, tok, TRUE).key = tok
         /\ protectString(protectString(s, tok, TRUE), tok, FALSE) = s
<1> DEFINE sealed == [text |-> s.text, key |-> tok]
<1>1. protectString(s, tok, TRUE) = sealed
  BY DEF protectString
<1>2. protectString(sealed, tok, FALSE) = [text |-> s.text, key |-> ""]
  BY DEF protectString
<1>3. s = [text |-> s.text, key |-> ""]
  OBVIOUS
<1>4. sealed.key = tok
  OBVIOUS
<1> HIDE DEF sealed
<1>5. protectString(protectString(s, tok, TRUE), tok, FALSE) = [text |-> s.text, key |-> ""]
  BY <1>1, <1>2, Zenon
<1> QED
  BY <1>1, <1>3, <1>4, <1>5

(* One that looks sealed stays as it is.                                   *)
LEMMA StringStays ==
  ASSUME NEW s \in [text : STRING, key : STRING], s.key = "none", NEW tok
  PROVE  protectString(s, tok, TRUE) = s
<1>1. protectString(s, tok, TRUE) = [text |-> s.text, key |-> s.key]
  BY DEF protectString
<1>2. s = [text |-> s.text, key |-> s.key]
  OBVIOUS
<1> QED
  BY <1>1, <1>2

(* What is sealed can be opened, and is what it was.                       *)
LEMMA DocumentComesBack ==
  ASSUME NEW value, IsDocument(value), Unprefixed(value), NEW tok
  PROVE  CanOpen(Seal(value, tok), tok) /\ Open(Seal(value, tok), tok) = value
<1>1. CASE tok = ""
  BY <1>1 DEF CanOpen, Open, Seal
<1>2. CASE tok # ""
  <2> DEFINE sealed == protectValue(value, tok, TRUE)
             opened == protectValue(sealed, tok, FALSE)
  <2>1. Seal(value, tok) = sealed /\ Open(sealed, tok) = opened
    BY <1>2 DEF Seal, Open
  <2>2. DOMAIN sealed = DOMAIN value /\ DOMAIN opened = DOMAIN value
    BY DEF protectValue
  <2>3. ASSUME NEW path \in DOMAIN value
        PROVE  /\ Protected(path) => sealed[path].key = tok
               /\ opened[path] = value[path]
    <3>1. sealed[path] = IF Protected(path) THEN protectString(value[path], tok, TRUE)
                         ELSE value[path]
      BY DEF protectValue
    <3>2. opened[path] = IF Protected(path) THEN protectString(sealed[path], tok, FALSE)
                         ELSE sealed[path]
      BY <2>2 DEF protectValue
    <3>3. value[path] \in [text : STRING, key : STRING]
      BY DEF IsDocument
    <3>4. Protected(path) => value[path].key = ""
      BY DEF Unprefixed, Reached
    <3>5. CASE Protected(path)
      <4>1. /\ protectString(value[path], tok, TRUE).key = tok
            /\ protectString(protectString(value[path], tok, TRUE), tok, FALSE) = value[path]
        BY <3>3, <3>4, <3>5, StringComesBack, Zenon
      <4>2. sealed[path] = protectString(value[path], tok, TRUE)
        BY <3>1, <3>5
      <4> QED
        BY <3>2, <3>5, <4>1, <4>2, Zenon
    <3> QED
      BY <3>1, <3>2, <3>5
  <2>4. CanOpen(sealed, tok)
    BY <2>2, <2>3 DEF CanOpen, Reached, Opens
  <2>5. opened = value
    <3>1. value = [path \in DOMAIN value |-> value[path]]
      BY DEF IsDocument
    <3>2. opened = [path \in DOMAIN value |-> opened[path]]
      BY <2>2 DEF protectValue
    <3> QED
      BY <2>3, <3>1, <3>2
  <2> QED
    BY <2>1, <2>4, <2>5
<1> QED
  BY <1>1, <1>2

-----------------------------------------------------------------------------
(* The search for plaintext.                                               *)

(* Sealing leaves a string as it was, where it does not reach or if the    *)
(* string looks sealed already, or seals it.                               *)
LEMMA SealedString ==
  ASSUME NEW value, Written(value), NEW tok, tok # "", NEW path \in DOMAIN Seal(value, tok)
  PROVE  /\ path \in DOMAIN value /\ path \in Seq(Step)
         /\ \/ Seal(value, tok)[path].key = tok
            \/ Seal(value, tok)[path] = value[path] /\ (~Protected(path) \/ value[path].key = "none")
<1>1. Seal(value, tok) = protectValue(value, tok, TRUE)
  BY DEF Seal
<1>2. path \in DOMAIN value /\ path \in Seq(Step)
  BY <1>1 DEF protectValue, Written, IsDocument
<1>3. value[path] \in [text : STRING, key : STRING] /\ value[path].key \in {"", "none"}
  BY <1>2 DEF Written, IsDocument
<1>4. Seal(value, tok)[path] = IF Protected(path) THEN protectString(value[path], tok, TRUE)
                               ELSE value[path]
  BY <1>1, <1>2 DEF protectValue
<1>5. CASE Protected(path) /\ value[path].key = ""
  <2>1. protectString(value[path], tok, TRUE).key = tok
    BY <1>3, <1>5, StringComesBack, Zenon
  <2>2. Seal(value, tok)[path] = protectString(value[path], tok, TRUE)
    BY <1>4, <1>5
  <2> QED
    BY <1>2, <2>1, <2>2, Zenon
<1>6. CASE Protected(path) /\ value[path].key = "none"
  BY <1>2, <1>3, <1>4, <1>6, StringStays
<1>7. CASE ~Protected(path)
  BY <1>2, <1>4, <1>7
<1> QED
  BY <1>3, <1>5, <1>6, <1>7

(* What is reached and registered is found, whether the body is JSON or    *)
(* not.                                                                    *)
LEMMA ReachedIsFound ==
  ASSUME NEW body, DOMAIN body \subseteq Seq(Step), Reached(body) \cap probes # {},
         \A s \in probes : s.key \in {"", "none"}, NEW isJSON
  PROVE  ContainsPlaintext(body, isJSON)
<1>1. PICK path \in DOMAIN body : Protected(path) /\ body[path] \in probes
  BY DEF Reached
<1>2. Searched(path)
  BY <1>1, ProtectedIsSearched
<1>3. Readable(body)
  <2>1. body[path] \in Legible(body)
    BY <1>1 DEF Legible
  <2>2. Holds(body[path], body[path])
    BY DEF Holds
  <2> QED
    BY <1>1, <2>1, <2>2 DEF Readable
<1> QED
  BY <1>1, <1>2, <1>3 DEF ContainsPlaintext

-----------------------------------------------------------------------------
(* The inductive invariant: what is on the wire comes from what was        *)
(* written, by the token and the style of the call, and what the call      *)
(* returns comes from what is on the wire.                                 *)

TokensKnown ==
  /\ token \in Tokens \cup {""} /\ request.token \in Tokens \cup {""}
  /\ reply.granted \in Tokens \cup {""}

ProbesWritten == \A s \in probes : s.key \in {"", "none"} /\ s.text # ""

RequestFollows ==
  /\ Written(request.params)
  /\ request.body = Seal(request.params, request.token)

ReplyFields == {"answer", "style", "body", "whole", "heard", "granted"}
ReplyFollows ==
  LET sent == Respond(reply.answer, reply.style, request.token)
  IN  /\ DOMAIN reply = ReplyFields
      /\ Written(reply.answer) /\ reply.style \in {"sealed", "plain"} \cup Tokens
      /\ at = "requested" => reply.body = Nothing
      /\ at = "answered" => reply.whole /\ reply.heard = Open(request.body, request.token)
      /\ at # "requested" /\ reply.whole => reply.body = sent
      /\ at # "requested" /\ ~reply.whole =>
           \A path \in DOMAIN reply.body : path \in DOMAIN sent /\ reply.body[path] \in {sent[path], Cut}

OutcomeFollows ==
  at = "returned" =>
    /\ outcome.plaintext <=> \/ ContainsPlaintext(request.body, TRUE)
                             \/ ContainsPlaintext(reply.body, reply.whole)
    /\ outcome.ok => reply.whole /\ outcome.result = Open(reply.body, request.token)

Inv == TokensKnown /\ ProbesWritten /\ RequestFollows /\ ReplyFollows /\ OutcomeFollows

(* Nothing stays nothing when it is sealed, and holds no plaintext.        *)
LEMMA NothingSealed ==
  ASSUME NEW tok
  PROVE  /\ Seal(Nothing, tok) = Nothing /\ Open(Nothing, tok) = Nothing
         /\ ~ContainsPlaintext(Nothing, TRUE)
<1>1. \A encrypt \in BOOLEAN : protectValue(Nothing, tok, encrypt) = Nothing
  BY DEF protectValue, Nothing
<1>2. ~ContainsPlaintext(Nothing, TRUE)
  BY NothingWritten DEF ContainsPlaintext
<1> QED
  BY <1>1, <1>2 DEF Seal, Open

LEMMA InvInit == WireInit => Inv
<1> SUFFICES ASSUME WireInit PROVE Inv
  OBVIOUS
<1>1. /\ at = "returned" /\ probes = {} /\ token = ""
      /\ request.params = Nothing /\ request.body = Nothing /\ request.token = ""
      /\ reply.answer = Nothing /\ reply.body = Nothing /\ reply.style = "sealed" /\ reply.whole
      /\ reply.granted = "" /\ DOMAIN reply = ReplyFields
      /\ outcome.result = Nothing /\ outcome.plaintext = FALSE
  BY DEF WireInit, NoReply, NoOutcome, ReplyFields
<1>2. TokensKnown /\ ProbesWritten
  BY <1>1 DEF TokensKnown, ProbesWritten
<1>3. RequestFollows
  BY <1>1, NothingWritten, NothingSealed DEF RequestFollows
<1>4. ReplyFollows
  BY <1>1, NothingWritten, NothingSealed DEF ReplyFollows, Respond
<1>5. OutcomeFollows
  BY <1>1, NothingSealed DEF OutcomeFollows
<1> QED
  BY <1>2, <1>3, <1>4, <1>5 DEF Inv

LEMMA BeginKeeps ==
  ASSUME Inv, NEW operation, NEW params, Written(params), Begin(operation, params)
  PROVE  Inv'
<1>1. /\ at' = "requested" /\ token' = token
      /\ \E registered \in SUBSET {s \in Reached(params) : s.text # ""} : probes' = probes \cup registered
      /\ request'.params = params /\ request'.body = Seal(params, token)
      /\ request'.token = token
      /\ reply'.answer = Nothing /\ reply'.style = "sealed" /\ reply'.granted = ""
      /\ reply'.body = Nothing /\ DOMAIN reply' = ReplyFields
  BY DEF Begin, NoReply, ReplyFields
<1>2. TokensKnown'
  BY <1>1 DEF Inv, TokensKnown
<1>3. ProbesWritten'
  <2>1. \A s \in Reached(params) : s.key \in {"", "none"}
    BY DEF Written, Reached
  <2> QED
    BY <1>1, <2>1 DEF Inv, ProbesWritten
<1>4. RequestFollows'
  BY <1>1 DEF RequestFollows
<1>5. ReplyFollows'
  BY <1>1, NothingWritten DEF ReplyFollows
<1>6. OutcomeFollows'
  BY <1>1 DEF OutcomeFollows
<1> QED
  BY <1>2, <1>3, <1>4, <1>5, <1>6 DEF Inv

LEMMA ServeKeeps ==
  ASSUME Inv, NEW style \in {"sealed", "plain"} \cup Tokens, NEW grant \in Tokens \cup {""},
         NEW answer, Written(answer), Serve(style, answer, grant)
  PROVE  Inv'
<1>1. /\ at' = "answered" /\ token' = token /\ probes' = probes /\ request' = request
      /\ reply'.answer = answer /\ reply'.style = style /\ reply'.granted = grant
      /\ reply'.body = Respond(answer, style, request.token)
      /\ reply'.heard = Open(request.body, request.token) /\ reply'.whole
      /\ DOMAIN reply' = ReplyFields
  BY DEF Serve, ReplyFields
<1>2. TokensKnown' /\ ProbesWritten'
  BY <1>1 DEF Inv, TokensKnown, ProbesWritten
<1>3. RequestFollows'
  BY <1>1 DEF Inv, RequestFollows
<1>4. ReplyFollows'
  BY <1>1 DEF ReplyFollows
<1>5. OutcomeFollows'
  BY <1>1 DEF OutcomeFollows
<1> QED
  BY <1>2, <1>3, <1>4, <1>5 DEF Inv

LEMMA ReturnKeeps ==
  ASSUME Inv, Return
  PROVE  Inv'
<1>1. /\ at = "answered" /\ at' = "returned"
      /\ probes' = probes /\ request' = request /\ reply' = reply
  BY DEF Return
<1>2. PICK decoded \in BOOLEAN :
        LET opened == CanOpen(reply.body, request.token)
            ok == opened /\ decoded
            granted == IF opened /\ reply.granted # "" THEN {reply.granted} ELSE {}
        IN  /\ outcome' = [
                 ok |-> ok,
                 result |-> IF ok THEN Open(reply.body, request.token) ELSE Nothing,
                 plaintext |-> \/ ContainsPlaintext(request.body, TRUE)
                               \/ ContainsPlaintext(reply.body, TRUE)]
            /\ token' \in IF ok /\ granted # {} THEN granted ELSE granted \cup {token}
  BY DEF Return
<1>3. token' \in {reply.granted, token}
  BY <1>2
<1>4. TokensKnown' /\ ProbesWritten'
  BY <1>1, <1>3 DEF Inv, TokensKnown, ProbesWritten
<1>5. RequestFollows' /\ ReplyFollows'
  BY <1>1 DEF Inv, RequestFollows, ReplyFollows
<1>6. OutcomeFollows'
  <2>1. /\ outcome'.plaintext <=> \/ ContainsPlaintext(request.body, TRUE)
                                  \/ ContainsPlaintext(reply.body, reply.whole)
        /\ reply.whole
    BY <1>1, <1>2 DEF Inv, ReplyFollows, ContainsPlaintext
  <2>2. outcome'.ok => outcome'.result = Open(reply.body, request.token)
    BY <1>2
  <2> QED
    BY <1>1, <2>1, <2>2 DEF OutcomeFollows, ContainsPlaintext, Readable
<1> QED
  BY <1>4, <1>5, <1>6 DEF Inv

LEMMA LoseKeeps ==
  ASSUME Inv, Lose
  PROVE  Inv'
<1>1. PICK body \in CutOff(reply.body) :
        /\ reply' = [reply EXCEPT !.body = body, !.whole = FALSE]
        /\ outcome' = [
             ok |-> FALSE, result |-> Nothing,
             plaintext |-> ContainsPlaintext(request.body, TRUE) \/ ContainsPlaintext(body, FALSE)]
  BY DEF Lose
<1>2. /\ at \in {"requested", "answered"} /\ at' = "returned"
      /\ token' = token /\ probes' = probes /\ request' = request
  BY DEF Lose
<1>3. /\ DOMAIN reply' = ReplyFields /\ reply'.body = body /\ reply'.whole = FALSE
      /\ reply'.answer = reply.answer /\ reply'.style = reply.style /\ reply'.granted = reply.granted
  BY <1>1 DEF Inv, ReplyFollows, ReplyFields
<1>4. \A path \in DOMAIN body : path \in DOMAIN reply.body /\ body[path] \in {reply.body[path], Cut}
  BY <1>1 DEF CutOff
<1>5. TokensKnown' /\ ProbesWritten'
  BY <1>2, <1>3 DEF Inv, TokensKnown, ProbesWritten
<1>6. RequestFollows'
  BY <1>2 DEF Inv, RequestFollows
<1>7. ReplyFollows'
  <2> DEFINE sent == Respond(reply.answer, reply.style, request.token)
  <2>1. at = "requested" => DOMAIN reply.body = {}
    BY NothingWritten DEF Inv, ReplyFollows
  <2>2. at = "answered" => reply.body = sent
    BY DEF Inv, ReplyFollows
  <2>3. \A path \in DOMAIN body : path \in DOMAIN sent /\ body[path] \in {sent[path], Cut}
    BY <1>2, <1>4, <2>1, <2>2
  <2>4. Written(reply.answer) /\ reply.style \in {"sealed", "plain"} \cup Tokens
    BY DEF Inv, ReplyFollows
  <2> QED
    BY <1>2, <1>3, <2>3, <2>4 DEF ReplyFollows
<1>8. OutcomeFollows'
  <2>1. /\ outcome'.plaintext <=> ContainsPlaintext(request.body, TRUE) \/ ContainsPlaintext(body, FALSE)
        /\ outcome'.ok = FALSE
    BY <1>1
  <2> QED
    BY <1>2, <1>3, <2>1 DEF OutcomeFollows, ContainsPlaintext, Readable
<1> QED
  BY <1>5, <1>6, <1>7, <1>8 DEF Inv

LEMMA StepKeeps == Inv /\ [WireNext]_wireVars => Inv'
<1> SUFFICES ASSUME Inv, [WireNext]_wireVars PROVE Inv'
  OBVIOUS
<1>1. Written(Nothing) /\ \A value \in Params \cup Answers : Written(value)
  BY NothingWritten, DocumentsAssumption DEF Written
<1>2. CASE CreateOrLoadIdentity \/ Read
  BY <1>1, <1>2, BeginKeeps DEF CreateOrLoadIdentity, Read
<1>3. CASE Write
  BY <1>1, <1>3, BeginKeeps DEF Write
<1>4. ASSUME NEW style \in {"sealed", "plain"} \cup Tokens, NEW grant \in Tokens \cup {""},
             NEW answer \in IF request.operation = "Read" THEN Answers ELSE {Nothing},
             Serve(style, answer, grant)
      PROVE  Inv'
  BY <1>1, <1>4, ServeKeeps
<1>5. CASE Return
  BY <1>5, ReturnKeeps
<1>6. CASE Lose
  BY <1>6, LoseKeeps
<1>7. CASE UNCHANGED wireVars
  BY <1>7 DEF wireVars, Inv, TokensKnown, ProbesWritten, RequestFollows, ReplyFollows,
              OutcomeFollows, ContainsPlaintext, Readable
<1> QED
  BY <1>2, <1>3, <1>4, <1>5, <1>6, <1>7 DEF WireNext

LEMMA InvHolds == WireSpec => []Inv
BY InvInit, StepKeeps, PTL DEF WireSpec

-----------------------------------------------------------------------------
(* Sealing and opening are inverse in every call, for all documents and    *)
(* tokens (jsonrpc.go:57-67, 108-116, 147-222).                            *)
THEOREM SealingIsInverse == WireSpec => []RoundTrip
<1>1. ASSUME Inv PROVE RoundTrip
  <2>1. IsDocument(request.params) /\ IsDocument(reply.answer)
    BY <1>1 DEF Inv, RequestFollows, ReplyFollows, Written
  <2>2. at = "answered" /\ Unprefixed(request.params) => reply.heard = request.params
    BY <1>1, <2>1, DocumentComesBack DEF Inv, RequestFollows, ReplyFollows
  <2>3. ASSUME at \in {"answered", "returned"}, reply.whole, reply.style = "sealed",
               Unprefixed(reply.answer)
        PROVE  /\ CanOpen(reply.body, request.token)
               /\ Open(reply.body, request.token) = reply.answer
    <3>1. reply.body = Seal(reply.answer, request.token)
      BY <1>1, <2>3 DEF Inv, ReplyFollows, Respond
    <3> QED
      BY <2>1, <2>3, <3>1, DocumentComesBack
  <2>4. /\ at = "answered" => reply.whole
        /\ at = "returned" /\ outcome.ok =>
             reply.whole /\ outcome.result = Open(reply.body, request.token)
    BY <1>1 DEF Inv, OutcomeFollows, ReplyFollows
  <2> QED
    BY <2>2, <2>3, <2>4 DEF RoundTrip
<1> QED
  BY <1>1, InvHolds, PTL

(* An exchange that both sides have sealed is taken for plaintext only if  *)
(* a registered string was overlooked by the sealing, or stands in what    *)
(* arrived of an answer that was cut off, outside what is sealed           *)
(* (jsonrpc.go:86-96, 147-222, telemetry.go:273-328).                      *)
THEOREM SealedBlameAlwaysHasCause == WireSpec => []SealedBlameHasCause
<1>1. ASSUME Inv, at = "returned", request.token # "", reply.style # "plain", outcome.plaintext
      PROVE  \/ Overlooked(request.params)
             \/ reply.whole /\ Overlooked(reply.answer)
             \/ ~reply.whole /\ Exposed(reply.answer)
  <2>1. Written(request.params) /\ Written(reply.answer)
    BY <1>1 DEF Inv, RequestFollows, ReplyFollows
  <2> DEFINE sent == Respond(reply.answer, reply.style, request.token)
  <2>2. PICK tok : tok \in Tokens /\ sent = Seal(reply.answer, tok)
    <3>1. CASE reply.style = "sealed"
      BY <1>1, <3>1 DEF Inv, TokensKnown, Respond
    <3>2. CASE reply.style # "sealed"
      <4>1. reply.style \in Tokens
        BY <1>1, <3>2 DEF Inv, ReplyFollows
      <4> QED
        BY <1>1, <3>2, <4>1 DEF Respond
    <3> QED
      BY <3>1, <3>2
  <2> HIDE DEF sent
  <2>3. ASSUME NEW value, Written(value), NEW t \in Tokens, ContainsPlaintext(Seal(value, t), TRUE)
        PROVE  Overlooked(value)
    <3>1. t # "" /\ t # "none"
      BY TokensAssumption
    <3>2. PICK path \in DOMAIN Seal(value, t) : Searched(path) /\ Seal(value, t)[path] \in probes
      BY <2>3 DEF ContainsPlaintext
    <3>3. path \in DOMAIN value /\ path \in Seq(Step)
      BY <2>3, <3>1, SealedString
    <3>4. Seal(value, t)[path].key # t
      BY <1>1, <3>1, <3>2 DEF Inv, ProbesWritten
    <3>5. Seal(value, t)[path] = value[path] /\ (~Protected(path) \/ value[path].key = "none")
      BY <2>3, <3>1, <3>4, SealedString
    <3>6. ~Protected(path) => PassedOver(path)
      BY <3>2, <3>3, SearchedIsProtected
    <3> QED
      BY <3>2, <3>3, <3>5, <3>6 DEF Overlooked
  <2>4. CASE ContainsPlaintext(request.body, TRUE)
    <3>1. request.token \in Tokens /\ request.body = Seal(request.params, request.token)
      BY <1>1 DEF Inv, TokensKnown, RequestFollows
    <3> QED
      BY <2>1, <2>3, <2>4, <3>1
  <2>5. CASE reply.whole /\ ContainsPlaintext(reply.body, TRUE)
    <3>1. reply.body = sent
      BY <1>1, <2>5 DEF Inv, ReplyFollows, sent
    <3> QED
      BY <2>1, <2>2, <2>3, <2>5, <3>1
  <2>6. CASE ~reply.whole /\ Readable(reply.body)
    <3>1. \A path \in DOMAIN reply.body : path \in DOMAIN sent /\ reply.body[path] \in {sent[path], Cut}
      BY <1>1, <2>6 DEF Inv, ReplyFollows, sent
    <3>2. PICK probe \in probes : \E s \in Legible(reply.body) : Holds(s, probe)
      BY <2>6 DEF Readable
    <3>3. PICK s \in Legible(reply.body) : Holds(s, probe)
      BY <3>2
    <3>4. tok # "" /\ tok # "none"
      BY <2>2, TokensAssumption
    <3>5. CASE \E path \in DOMAIN reply.body : s = reply.body[path] /\ s.key \in {"", "none"}
      <4>1. PICK path \in DOMAIN reply.body : s = reply.body[path] /\ s.key \in {"", "none"}
        BY <3>5
      <4>2. s # Cut
        <5>1. Cut.text = ""
          BY DEF Cut
        <5>2. probe.text # ""
          BY <1>1 DEF Inv, ProbesWritten
        <5>3. ~Holds(Cut, probe)
          BY <5>1, <5>2, PartsAssumption DEF Holds
        <5> QED
          BY <3>3, <5>3
      <4>3. path \in DOMAIN Seal(reply.answer, tok) /\ s = Seal(reply.answer, tok)[path]
        BY <2>2, <3>1, <4>1, <4>2
      <4>4. /\ path \in DOMAIN reply.answer /\ s = reply.answer[path]
            /\ ~Protected(path) \/ reply.answer[path].key = "none"
        <5>1. Seal(reply.answer, tok)[path].key # tok
          BY <3>4, <4>1, <4>3
        <5>2. /\ path \in DOMAIN reply.answer
              /\ \/ Seal(reply.answer, tok)[path].key = tok
                 \/ /\ Seal(reply.answer, tok)[path] = reply.answer[path]
                    /\ ~Protected(path) \/ reply.answer[path].key = "none"
          BY <2>1, <3>4, <4>3, SealedString
        <5> QED
          BY <4>3, <5>1, <5>2
      <4> QED
        BY <2>6, <3>3, <4>4 DEF Exposed
    <3>6. CASE \E path \in DOMAIN reply.body : s \in KeysOf(path)
      <4>1. PICK path \in DOMAIN reply.body : s \in KeysOf(path)
        BY <3>6
      <4>2. path \in DOMAIN reply.answer
        BY <2>1, <2>2, <3>1, <3>4, <4>1, SealedString
      <4> QED
        BY <2>6, <3>3, <4>1, <4>2 DEF Exposed
    <3> QED
      BY <3>3, <3>5, <3>6 DEF Legible
  <2> QED
    BY <1>1, <2>4, <2>5, <2>6 DEF Inv, OutcomeFollows, ContainsPlaintext
<1>2. Inv => SealedBlameHasCause
  BY <1>1 DEF SealedBlameHasCause
<1> QED
  BY <1>2, InvHolds, PTL

(* Every registered string that stands in the open where the client would  *)
(* seal it is found, in every call (jsonrpc.go:183-222,                    *)
(* telemetry.go:273-328).                                                  *)
THEOREM ReadableIsFound == WireSpec => []ReadableIsBlamed
<1>1. ASSUME NEW value, Written(value), NEW tok
      PROVE  DOMAIN Seal(value, tok) \subseteq Seq(Step)
  BY <1>1 DEF Seal, protectValue, Written, IsDocument
<1>2. ASSUME Inv, at = "returned",
             (Reached(request.body) \cup Reached(reply.body)) \cap probes # {}
      PROVE  outcome.plaintext
  <2>1. DOMAIN request.body \subseteq Seq(Step)
    BY <1>1, <1>2 DEF Inv, RequestFollows
  <2>2. DOMAIN reply.body \subseteq Seq(Step)
    <3> DEFINE sent == Respond(reply.answer, reply.style, request.token)
    <3>1. Written(reply.answer) /\ DOMAIN reply.body \subseteq DOMAIN sent
      BY <1>2 DEF Inv, ReplyFollows
    <3>2. DOMAIN reply.answer \subseteq Seq(Step)
      BY <3>1 DEF Written, IsDocument
    <3> QED
      BY <1>1, <3>1, <3>2 DEF Respond
  <2>3. ContainsPlaintext(request.body, TRUE) \/ ContainsPlaintext(reply.body, reply.whole)
    BY <1>2, <2>1, <2>2, ReachedIsFound DEF Inv, ProbesWritten
  <2> QED
    BY <1>2, <2>3 DEF Inv, OutcomeFollows
<1>3. Inv => ReadableIsBlamed
  BY <1>2 DEF ReadableIsBlamed
<1> QED
  BY <1>3, InvHolds, PTL

-----------------------------------------------------------------------------
(* What a server or a group is: the fields the server keeps of it.         *)
Fields == {"owner", "policy", "members", "role", "granted", "revoked", "request", "invited",
           "messages", "author", "comments", "followers"}
Shape(s) == DOMAIN s = Fields /\ DOMAIN s.role = People

(* A new space, one who joins it, one who leaves it.                       *)
LEMMA SpaceShape == \A owner, policy : Shape(Space(owner, policy))
BY DEF Shape, Space, Fields

LEMMA JoinedShape ==
  ASSUME NEW s, Shape(s), NEW who, NEW name
  PROVE /\ Shape(Joined(s, who, name))
        /\ Joined(s, who, name).owner = s.owner
        /\ Joined(s, who, name).granted = s.granted
        /\ Joined(s, who, name).members = s.members \cup {who}
        /\ \A p \in People : Joined(s, who, name).role[p] \in {s.role[p], "member", "agent"}
        /\ \A p \in People : p # who => Joined(s, who, name).role[p] = s.role[p]
BY DEF Shape, Joined, Fields, People

LEMMA LeftShape ==
  ASSUME NEW s, Shape(s), NEW who
  PROVE /\ Shape(Left(s, who))
        /\ Left(s, who).owner = s.owner
        /\ Left(s, who).granted = s.granted
        /\ Left(s, who).members = s.members \ {who}
BY DEF Shape, Left, Fields, People

(* No call changes what fields there are.                                  *)
LEMMA EffectShape ==
  ASSUME NEW s, Shape(s), NEW call
  PROVE Shape(Effect(call, s))
BY SpaceShape, JoinedShape, LeftShape DEF Shape, Effect, Fields

(* The roles that have no permission but what is granted to them.          *)
Plain == {"none", "agent", "member"}

(* Who is in a space, and who owns it, after a call.                       *)
LEMMA MembersOf ==
  ASSUME NEW s, Shape(s), NEW call, call.op # "create"
  PROVE  /\ Effect(call, s).owner = s.owner
         /\ Effect(call, s).members \subseteq s.members \cup {call.who, call.to}
         /\ call.op \notin {"join", "accept", "approve"} => Effect(call, s).members \subseteq s.members
         /\ call.op \in {"join", "accept"} => Effect(call, s).members \subseteq s.members \cup {call.who}
<1> DEFINE r == [s EXCEPT !.request[call.to] = "approved"]
<1>1. Shape(r) /\ r.members = s.members /\ r.owner = s.owner
  BY DEF Shape, Fields
<1>2. CASE call.op = "approve"
  <2>1. Effect(call, s) = Joined(r, call.to, call.space)
    BY <1>2 DEF Effect
  <2> HIDE DEF r
  <2> QED
    BY <1>1, <1>2, <2>1, JoinedShape
<1>3. CASE call.op \in {"join", "accept"}
  BY <1>3, JoinedShape DEF Effect
<1>4. CASE call.op \in {"leave", "remove"}
  BY <1>4, LeftShape DEF Effect
<1>5. CASE call.op \notin {"join", "accept", "approve", "leave", "remove"}
  BY <1>5 DEF Effect, Shape, Fields
<1> QED
  BY <1>2, <1>3, <1>4, <1>5

(* Which role and which permissions there are after a call.                *)
LEMMA RolesOf ==
  ASSUME NEW s, Shape(s), NEW call, call.op \notin {"create", "approve", "leave", "remove"}
  PROVE  /\ \A p \in People : call.op = "setRole" /\ call.to = p => Effect(call, s).role[p] = call.is
         /\ \A p \in People : ~(call.op = "setRole" /\ call.to = p) =>
              Effect(call, s).role[p] \in {s.role[p], "member", "agent"}
         /\ Effect(call, s).granted \subseteq
               s.granted \cup (IF call.op = "grant" THEN {<<call.to, call.is>>} ELSE {})
<1>3. CASE call.op \in {"join", "accept"}
  BY <1>3, JoinedShape DEF Effect
<1>4. CASE call.op = "setRole"
  BY <1>4 DEF Effect, Shape, Fields
<1>5. CASE call.op \notin {"join", "accept", "setRole"}
  BY <1>5 DEF Effect, Shape, Fields
<1> QED
  BY <1>3, <1>4, <1>5

-----------------------------------------------------------------------------
(* The scripts: what they call, with what, and that they are sequences.    *)
Callers == {"a", "b", "c", "human", "nobody"}
Ops == {"create", "join", "request", "requests", "approve", "reject", "invite", "invites", "accept",
        "leave", "remove", "members", "onlyMember", "roles", "setRole", "grant", "revoke", "update",
        "find", "get", "compact", "page", "contacts", "badPolicy", "badRole", "badManifest", "badBatch",
        "futureCursor", "delete", "audit", "post", "edit", "comment", "react", "follow", "unfollow",
        "follower", "share", "read", "send", "dm", "dmHistory", "anyOf", "allOf", "noneOf", "markRead",
        "reconnect", "apply", "sync", "mixed", "impersonate"}
SpaceNames ==
  Groups \cup {"main", "membershipGate", "anywhere", "aclGate", "approval", "invite", "closed", "reject",
               "matrix", "isolated", "forged", "notices", "noticeApproval", "manifest"}
Roles == {"administrator", "moderator", "member"}
Words ==
  {"any", "three", "history", "pending", "approved", "rejected", "public", "closed", "invite-only",
   "approval-required", "administrator", "moderator", "member", "owner", "manage_roles", "moderate_posts",
   "manage_settings", "create_groups", "create_posts", "view_audit", "manage_permissions",
   "invite_members", "send_messages", "groups", "thread", "posts", "events", "post", "joined",
   "already-member", "new", "shown", "hidden", "message", "made"}
Subjects == Words \cup (SUBSET (Kinds \X SpaceNames)) \cup (SUBSET (People \X Roles))
AnyCall ==
  [who : Callers, op : Ops, space : SpaceNames,
   to : Callers \cup {"member", "owner", "moderator", "agent", "groups", "thread", "posts", "events"},
   is : Subjects, expect : {"success", "refusal", "denial", "scoped", "isolated"}]

(* A script has a call to make; a mild one never accuses.                  *)
Script(s) == s \in Seq(AnyCall) /\ Len(s) > 0
Mild(s) == \A i \in DOMAIN s : s[i].expect # "denial"

(* Two sequences in a row, by index.                                       *)
LEMMA Concatenated ==
  ASSUME NEW S, NEW s \in Seq(S), NEW t \in Seq(S)
  PROVE  /\ s \o t \in Seq(S) /\ Len(s \o t) = Len(s) + Len(t)
         /\ Len(s) \in Nat /\ Len(t) \in Nat /\ DOMAIN (s \o t) = 1 .. Len(s) + Len(t)
         /\ DOMAIN s = 1 .. Len(s) /\ DOMAIN t = 1 .. Len(t)
         /\ \A k \in 1 .. Len(s) : (s \o t)[k] = s[k]
         /\ \A k \in 1 .. Len(t) : (s \o t)[Len(s) + k] = t[k]
         /\ \A i \in 1 .. Len(s) + Len(t) : i \in 1 .. Len(s) \/ \E k \in 1 .. Len(t) : i = Len(s) + k
<1> DEFINE st == s \o t
<1>1. /\ st \in Seq(S) /\ Len(st) = Len(s) + Len(t) /\ Len(s) \in Nat /\ Len(t) \in Nat
      /\ \A i \in 1 .. Len(s) + Len(t) : st[i] = IF i <= Len(s) THEN s[i] ELSE t[i - Len(s)]
  BY ConcatProperties, LenProperties
<1>2. DOMAIN s = 1 .. Len(s) /\ DOMAIN t = 1 .. Len(t) /\ DOMAIN st = 1 .. Len(s) + Len(t)
  BY <1>1, LenProperties
<1> HIDE DEF st
<1>3. \A k \in 1 .. Len(s) : st[k] = s[k]
  BY <1>1
<1>4. ASSUME NEW k \in 1 .. Len(t) PROVE st[Len(s) + k] = t[k]
  <2>1. Len(s) + k \in 1 .. Len(s) + Len(t) /\ ~(Len(s) + k <= Len(s)) /\ (Len(s) + k) - Len(s) = k
    BY <1>1
  <2> QED
    BY <1>1, <2>1
<1>5. ASSUME NEW i \in 1 .. Len(s) + Len(t)
      PROVE  i \in 1 .. Len(s) \/ \E k \in 1 .. Len(t) : i = Len(s) + k
  <2>1. CASE i > Len(s)
    <3>1. i - Len(s) \in 1 .. Len(t) /\ i = Len(s) + (i - Len(s))
      BY <1>1, <2>1
    <3> QED
      BY <3>1
  <2> QED
    BY <1>1, <2>1
<1> QED
  BY <1>1, <1>2, <1>3, <1>4, <1>5 DEF st

(* A script may be put together from scripts.                              *)
LEMMA ScriptsConcatenated ==
  ASSUME NEW s, NEW t, Script(s), Script(t)
  PROVE  Script(s \o t) /\ (Mild(s) /\ Mild(t) => Mild(s \o t))
<1> DEFINE st == s \o t
<1>1. /\ st \in Seq(AnyCall) /\ Len(st) = Len(s) + Len(t)
      /\ Len(s) \in Nat /\ Len(t) \in Nat /\ DOMAIN st = 1 .. Len(s) + Len(t)
      /\ DOMAIN s = 1 .. Len(s) /\ DOMAIN t = 1 .. Len(t)
      /\ \A k \in 1 .. Len(s) : st[k] = s[k]
      /\ \A k \in 1 .. Len(t) : st[Len(s) + k] = t[k]
      /\ \A i \in 1 .. Len(s) + Len(t) : i \in 1 .. Len(s) \/ \E k \in 1 .. Len(t) : i = Len(s) + k
  BY Concatenated DEF Script
<1> HIDE DEF st
<1>2. Script(st)
  BY <1>1 DEF Script
<1>3. ASSUME Mild(s), Mild(t), NEW i \in 1 .. Len(s) + Len(t)
      PROVE  st[i].expect # "denial"
  <2>1. CASE i \in 1 .. Len(s)
    BY <1>1, <1>3, <2>1 DEF Mild
  <2>2. CASE \E k \in 1 .. Len(t) : i = Len(s) + k
    BY <1>1, <1>3, <2>2 DEF Mild
  <2> QED
    BY <1>1, <2>1, <2>2
<1> QED
  BY <1>1, <1>2, <1>3 DEF st, Mild

(* Seven of the scenarios accuse nobody, whatever they are answered.       *)
LEMMA LifecycleScript ==
  Script(serverLifecycle) /\ Mild(serverLifecycle)
<1>1. Script(publicServer) /\ Mild(publicServer)
  BY DEF publicServer, Script, Mild, Create, Do, Refused, Call, AnyCall, Callers, Ops, SpaceNames,
         Subjects, Words
<1>2. Script(approvalServer) /\ Mild(approvalServer)
  BY DEF approvalServer, Script, Mild, Create, Do, Refused, Call, AnyCall, Callers, Ops, SpaceNames,
         Subjects, Words
<1>3. Script(inviteServer) /\ Mild(inviteServer)
  BY DEF inviteServer, Script, Mild, Create, Do, Refused, Call, AnyCall, Callers, Ops, SpaceNames,
         Subjects, Words
<1>4. Script(closedServer) /\ Mild(closedServer)
  BY DEF closedServer, Script, Mild, Create, Do, Refused, Call, AnyCall, Callers, Ops, SpaceNames,
         Subjects, Words
<1>5. Script(rejectServer) /\ Mild(rejectServer)
  BY DEF rejectServer, Script, Mild, Create, Do, Refused, Call, AnyCall, Callers, Ops, SpaceNames,
         Subjects, Words
<1> DEFINE two == publicServer \o approvalServer
           three == two \o inviteServer
           four == three \o closedServer
<1>6. Script(two) /\ Mild(two)
  BY <1>1, <1>2, ScriptsConcatenated
<1> HIDE DEF two
<1>7. Script(three) /\ Mild(three)
  BY <1>3, <1>6, ScriptsConcatenated
<1> HIDE DEF three
<1>8. Script(four) /\ Mild(four)
  BY <1>4, <1>7, ScriptsConcatenated
<1> HIDE DEF four
<1>9. serverLifecycle = four \o rejectServer
  BY DEF serverLifecycle, two, three, four
<1> QED
  BY <1>5, <1>8, <1>9, ScriptsConcatenated

LEMMA GroupsScript ==
  Script(serverGroups) /\ Mild(serverGroups)
<1>1. Script(openGroups) /\ Mild(openGroups)
  BY DEF openGroups, Script, Mild, Create, Do, Refused, Call, AnyCall, Callers, Ops, SpaceNames,
         Subjects, Words, Groups
<1>2. Script(approvalGroups) /\ Mild(approvalGroups)
  BY DEF approvalGroups, Script, Mild, Create, Do, Refused, Call, AnyCall, Callers, Ops, SpaceNames,
         Subjects, Words, Groups
<1>3. Script(inviteGroup) /\ Mild(inviteGroup)
  BY DEF inviteGroup, Script, Mild, Create, Do, Refused, Call, AnyCall, Callers, Ops, SpaceNames,
         Subjects, Words, Groups
<1>4. Script(privateGroup) /\ Mild(privateGroup)
  <2>1. {<<"b", "member">>} \in Subjects
    <3>1. {<<"b", "member">>} \in SUBSET (People \X Roles)
      BY DEF People, Roles
    <3>2. SUBSET (People \X Roles) \subseteq Subjects
      BY Zenon DEF Subjects
    <3> QED
      BY <3>1, <3>2, Zenon
  <2>2. privateGroup \in Seq(AnyCall)
    <3>1. /\ {"any", "closed", "hidden", "public", "administrator", "send_messages", "message"} \subseteq Subjects
          /\ {"privateGroup", "publicGroup"} \subseteq SpaceNames
      BY DEF Subjects, Words, SpaceNames, Groups
    <3> QED
      BY <2>1, <3>1 DEF privateGroup, Create, Do, Refused, Call, AnyCall, Callers, Ops
  <2>3. Len(privateGroup) > 0 /\ Mild(privateGroup)
    BY DEF privateGroup, Mild, Create, Do, Refused, Call
  <2> QED
    BY <2>2, <2>3 DEF Script
<1> DEFINE two == openGroups \o approvalGroups
           three == two \o inviteGroup
<1>5. Script(two) /\ Mild(two)
  BY <1>1, <1>2, ScriptsConcatenated
<1> HIDE DEF two
<1>6. Script(three) /\ Mild(three)
  BY <1>3, <1>5, ScriptsConcatenated
<1> HIDE DEF three
<1>7. serverGroups = three \o privateGroup
  BY DEF serverGroups, two, three
<1> QED
  BY <1>4, <1>6, <1>7, ScriptsConcatenated

LEMMA NotificationScript ==
  Script(notificationDurability) /\ Mild(notificationDurability)
<1>1. Script(notify) /\ Mild(notify)
  BY DEF notify, Script, Mild, Create, Do, Refused, Call, AnyCall, Callers, Ops, SpaceNames,
         Subjects, Words, Groups
<1>2. Script(notifyOfAccess) /\ Mild(notifyOfAccess)
  BY DEF notifyOfAccess, Script, Mild, Create, Do, Refused, Call, AnyCall, Callers, Ops, SpaceNames,
         Subjects, Words, Groups
<1>3. Script(noticed) /\ Mild(noticed)
  <2>1. expected \in Subjects /\ \A kind \in Kinds, space \in SpaceNames : {<<kind, space>>} \in Subjects
    <3>1. /\ "notices" \in SpaceNames /\ "noticeGroup" \in SpaceNames /\ "noticeApproval" \in SpaceNames
          /\ {"dm", "reply", "reaction", "invitation"} \subseteq Kinds
      BY DEF Kinds, SpaceNames, Groups
    <3>2. \A kind \in Kinds, space \in SpaceNames : {<<kind, space>>} \in SUBSET (Kinds \X SpaceNames)
      OBVIOUS
    <3>3. expected \in SUBSET (Kinds \X SpaceNames)
      BY <3>1 DEF expected
    <3> QED
      BY <3>2, <3>3 DEF Subjects, Words
  <2>2. noticed \in Seq(AnyCall)
    <3>1. /\ "notices" \in SpaceNames /\ "noticeGroup" \in SpaceNames /\ "noticeApproval" \in SpaceNames
          /\ {"mention", "invitation", "request", "approved"} \subseteq Kinds /\ "any" \in Subjects
      BY DEF Kinds, SpaceNames, Groups, Subjects, Words
    <3> QED
      BY <2>1, <3>1 DEF noticed, Do, Call, AnyCall, Callers, Ops
  <2>3. Len(noticed) = 9
    BY DEF noticed
  <2>4. Mild(noticed)
    BY DEF noticed, Mild, Do, Call
  <2> QED
    BY <2>2, <2>3, <2>4 DEF Script
<1>4. Script(notify \o notifyOfAccess) /\ Mild(notify \o notifyOfAccess)
  BY <1>1, <1>2, ScriptsConcatenated
<1> QED
  BY <1>3, <1>4, ScriptsConcatenated DEF notificationDurability

LEMMA ShortScripts ==
  /\ Script(serverPermissions) /\ Mild(serverPermissions)
  /\ Script(serverForums) /\ Mild(serverForums)
  /\ Script(declarative) /\ Mild(declarative)
  /\ Script(delta) /\ Mild(delta)
<1>1. Script(serverPermissions) /\ Mild(serverPermissions)
  <2>1. {<<"b", "administrator">>, <<"c", "moderator">>} \in Subjects
    <3>1. {<<"b", "administrator">>, <<"c", "moderator">>} \in SUBSET (People \X Roles)
      BY DEF People, Roles
    <3>2. SUBSET (People \X Roles) \subseteq Subjects
      BY Zenon DEF Subjects
    <3> QED
      BY <3>1, <3>2, Zenon
  <2>2. serverPermissions \in Seq(AnyCall)
    <3>1. /\ {"any", "administrator", "moderator", "manage_roles", "moderate_posts"} \subseteq Subjects
          /\ "main" \in SpaceNames
      BY DEF Subjects, Words, SpaceNames
    <3> QED
      BY <2>1, <3>1 DEF serverPermissions, Do, Refused, Call, AnyCall, Callers, Ops
  <2>3. Len(serverPermissions) > 0 /\ Mild(serverPermissions)
    BY DEF serverPermissions, Mild, Do, Refused, Call
  <2> QED
    BY <2>2, <2>3 DEF Script
<1>2. Script(serverForums) /\ Mild(serverForums)
  BY DEF serverForums, Script, Mild, Create, Do, Refused, Call, AnyCall, Callers, Ops, SpaceNames,
         Subjects, Words, Groups, Kinds
<1>3. Script(declarative) /\ Mild(declarative)
  BY DEF declarative, Script, Mild, Create, Do, Refused, Call, AnyCall, Callers, Ops, SpaceNames,
         Subjects, Words, Groups
<1>4. Script(delta) /\ Mild(delta)
  BY DEF delta, Script, Mild, Create, Do, Refused, Call, AnyCall, Callers, Ops, SpaceNames,
         Subjects, Words, Groups
<1> QED
  BY <1>1, <1>2, <1>3, <1>4

-----------------------------------------------------------------------------
(* The scripts that may accuse.  c leaves before what c must not see.      *)
LEMMA GroupScript ==
  /\ Script(groupMembership) /\ Len(groupMembership) = 12
  /\ groupMembership[10] = Do("c", "leave", "membershipGate", "c", "any")
  /\ groupMembership[11] = Denied("c", "send", "membershipGate", "c", "any")
  /\ groupMembership[12] = Denied("c", "read", "membershipGate", "c", "history")
  /\ \A i \in DOMAIN groupMembership : groupMembership[i].expect = "denial" => i > 10
<1>1. Script(groupMembership) /\ Len(groupMembership) = 12
  BY DEF groupMembership, Script, Create, Do, Denied, Call, AnyCall, Callers, Ops, SpaceNames, Subjects, Words
<1>2. /\ groupMembership[10] = Do("c", "leave", "membershipGate", "c", "any")
      /\ groupMembership[11] = Denied("c", "send", "membershipGate", "c", "any")
      /\ groupMembership[12] = Denied("c", "read", "membershipGate", "c", "history")
  BY DEF groupMembership, Create
<1>3. \A i \in DOMAIN groupMembership : groupMembership[i].expect = "denial" => i > 10
  BY DEF groupMembership, Create, Do, Denied, Call
<1> QED
  BY <1>1, <1>2, <1>3

(* Only taking over an identity counts as a violation there.               *)
LEMMA UnauthorizedScript ==
  /\ Script(unauthorized)
  /\ \A i \in DOMAIN unauthorized : unauthorized[i].expect = "denial" => unauthorized[i].op = "impersonate"
<1>1. Script(unauthorized)
  BY DEF unauthorized, Script, Create, Do, Refused, Denied, Call, AnyCall, Callers, Ops, SpaceNames, Subjects, Words
<1>2. \A i \in DOMAIN unauthorized : unauthorized[i].expect = "denial" => unauthorized[i].op = "impersonate"
  BY DEF unauthorized, Create, Do, Refused, Denied, Call
<1> QED
  BY <1>1, <1>2

(* What b must not reach: the spaces are c's, nobody whom c has not asked  *)
(* in is let in, and what b tries needs a membership or a permission.      *)
Isolated == {"isolated", "isolatedGroup", "forged"}
KeepsOut(call) ==
  /\ call.space \in Isolated
  /\ call.op \in {"create", "members", "read", "send", "post", "setRole", "invite", "request", "accept",
                  "approve", "find", "sync", "compact", "futureCursor", "badManifest"}
  /\ call.op = "create" => call.who = "c"
  /\ call.op \in {"accept", "approve"} => call.expect = "denial"
  /\ call.expect = "denial" /\ call.op # "badManifest" =>
       /\ call.who = "b"
       /\ call.op \in {"members", "read", "send", "setRole", "accept", "approve", "find", "sync"}
       /\ call.op = "accept" => call.to # "b"
       /\ call.op = "find" => call.space = "isolatedGroup"

KeptOut(s) == Script(s) /\ \A i \in DOMAIN s : KeepsOut(s[i])

(* A script that keeps b out may be put together from such scripts.        *)
LEMMA KeptOutConcatenated ==
  ASSUME NEW s, NEW t, KeptOut(s), KeptOut(t)
  PROVE  KeptOut(s \o t)
<1> DEFINE st == s \o t
<1>1. /\ Len(s) \in Nat /\ Len(t) \in Nat /\ DOMAIN st = 1 .. Len(s) + Len(t)
      /\ DOMAIN s = 1 .. Len(s) /\ DOMAIN t = 1 .. Len(t) /\ Script(st)
      /\ \A k \in 1 .. Len(s) : st[k] = s[k]
      /\ \A k \in 1 .. Len(t) : st[Len(s) + k] = t[k]
      /\ \A i \in 1 .. Len(s) + Len(t) : i \in 1 .. Len(s) \/ \E k \in 1 .. Len(t) : i = Len(s) + k
  <2>1. s \in Seq(AnyCall) /\ t \in Seq(AnyCall) /\ Script(s) /\ Script(t)
    BY DEF KeptOut, Script
  <2>2. Script(st)
    BY <2>1, ScriptsConcatenated
  <2> HIDE DEF KeptOut
  <2> QED
    BY <2>1, <2>2, Concatenated
<1> HIDE DEF st
<1>2. ASSUME NEW i \in 1 .. Len(s) + Len(t) PROVE KeepsOut(st[i])
  <2>1. CASE i \in 1 .. Len(s)
    BY <1>1, <2>1 DEF KeptOut
  <2>2. CASE \E k \in 1 .. Len(t) : i = Len(s) + k
    BY <1>1, <2>2 DEF KeptOut
  <2> QED
    BY <1>1, <2>1, <2>2
<1> QED
  BY <1>1, <1>2 DEF KeptOut, st

(* security_isolation_abuse is one.                                        *)
LEMMA IsolationScript == KeptOut(securityIsolation)
<1>1. KeptOut(isolatedServer)
  <2>1. Script(isolatedServer)
    BY DEF isolatedServer, Script, Create, Do, Call, AnyCall, Callers, Ops, SpaceNames, Subjects, Words, Groups
  <2>2. \A i \in DOMAIN isolatedServer : KeepsOut(isolatedServer[i])
    BY DEF isolatedServer, KeepsOut, Isolated, Create, Do, Call
  <2> QED
    BY <2>1, <2>2 DEF KeptOut
<1>2. KeptOut(checks)
  <2>1. Script(checks)
    BY DEF checks, Script, Denied, Call, AnyCall, Callers, Ops, SpaceNames, Subjects, Words, Groups
  <2>2. \A i \in DOMAIN checks : KeepsOut(checks[i])
    BY DEF checks, KeepsOut, Isolated, Denied, Call
  <2> QED
    BY <2>1, <2>2 DEF KeptOut
<1>3. KeptOut(forgedAnswers)
  <2>1. Script(forgedAnswers)
    BY DEF forgedAnswers, Script, Create, Do, Denied, Call, AnyCall, Callers, Ops, SpaceNames, Subjects, Words
  <2>2. \A i \in DOMAIN forgedAnswers : KeepsOut(forgedAnswers[i])
    BY DEF forgedAnswers, KeepsOut, Isolated, Create, Do, Denied, Call
  <2> QED
    BY <2>1, <2>2 DEF KeptOut
<1>4. KeptOut(malformedInput)
  <2>1. Script(malformedInput)
    BY DEF malformedInput, Script, Do, Refused, Denied, Call, AnyCall, Callers, Ops, SpaceNames, Subjects, Words
  <2>2. \A i \in DOMAIN malformedInput : KeepsOut(malformedInput[i])
    BY DEF malformedInput, KeepsOut, Isolated, Do, Refused, Denied, Call
  <2> QED
    BY <2>1, <2>2 DEF KeptOut
<1> DEFINE three == isolatedServer \o checks \o forgedAnswers
<1>5. KeptOut(isolatedServer \o checks)
  BY <1>1, <1>2, KeptOutConcatenated
<1>6. KeptOut(three)
  BY <1>3, <1>5, KeptOutConcatenated
<1>7. securityIsolation = three \o malformedInput
  BY DEF securityIsolation
<1> HIDE DEF three
<1> QED
  BY <1>4, <1>6, <1>7, KeptOutConcatenated

(* What a plain member of matrix is entitled to: before the call at most P *)
(* has been granted to members, after it at most Q, and what must be       *)
(* denied needs a permission not in P.                                     *)
Entitled(call, P, Q) ==
  /\ P \subseteq Q
  /\ call.space \in {"matrix", "memberGroup"}
  /\ call.op \in {"create", "join", "setRole", "update", "grant", "revoke", "post", "audit", "edit", "invite"}
  /\ call.expect = "denial" =>
       /\ call.who = "b" /\ call.op \in DOMAIN Permission /\ Permission[call.op] \notin P
       /\ call.space = IF call.op = "create" THEN "memberGroup" ELSE "matrix"
  /\ call.op = "create" /\ call.space = "matrix" => call.who = "a"
  /\ call.op = "setRole" => call.to = "c" \/ call.is \in Plain
  /\ call.op = "grant" => call.to = "moderator" \/ (call.to = "member" /\ call.is \in Q)

(* kn[i] bounds what has been granted before the script's i-th call.       *)
Course(s, kn) == \A i \in DOMAIN s : Entitled(s[i], kn[i], kn[i + 1])
Leads(P, s, Q) == Script(s) /\ \E kn : kn[1] = P /\ kn[Len(s) + 1] = Q /\ Course(s, kn)

(* From P by way of Q to R.                                                *)
LEMMA LeadsOn ==
  ASSUME NEW P, NEW Q, NEW R, NEW s, NEW t, Leads(P, s, Q), Leads(Q, t, R)
  PROVE  Leads(P, s \o t, R)
<1> DEFINE st == s \o t
<1>1. /\ Script(st) /\ Len(st) = Len(s) + Len(t)
      /\ Len(s) \in Nat /\ Len(t) \in Nat /\ DOMAIN st = 1 .. Len(s) + Len(t)
      /\ DOMAIN s = 1 .. Len(s) /\ DOMAIN t = 1 .. Len(t) /\ Len(s) > 0
      /\ \A k \in 1 .. Len(s) : st[k] = s[k]
      /\ \A k \in 1 .. Len(t) : st[Len(s) + k] = t[k]
      /\ \A i \in 1 .. Len(s) + Len(t) : i \in 1 .. Len(s) \/ \E k \in 1 .. Len(t) : i = Len(s) + k
  <2>1. s \in Seq(AnyCall) /\ t \in Seq(AnyCall) /\ Script(s) /\ Script(t) /\ Len(s) > 0
    BY DEF Leads, Script
  <2>2. Script(st)
    BY <2>1, ScriptsConcatenated
  <2> QED
    BY <2>1, <2>2, Concatenated
<1> HIDE DEF st
<1>2. PICK ks : ks[1] = P /\ ks[Len(s) + 1] = Q /\ Course(s, ks)
  BY DEF Leads
<1>3. PICK kt : kt[1] = Q /\ kt[Len(t) + 1] = R /\ Course(t, kt)
  BY DEF Leads
<1> DEFINE n == Len(s)
           kn == [i \in 1 .. n + Len(t) + 1 |-> IF i <= n THEN ks[i] ELSE kt[i - n]]
<1>4. \A i \in 1 .. n : kn[i] = ks[i]
  BY <1>1
<1>5. \A i \in 1 .. Len(t) + 1 : kn[n + i] = kt[i]
  <2> TAKE i \in 1 .. Len(t) + 1
  <2>1. n + i \in 1 .. n + Len(t) + 1 /\ ~(n + i <= n) /\ (n + i) - n = i
    BY <1>1
  <2> QED
    BY <2>1
<1>6. kn[n + 1] = ks[n + 1]
  BY <1>1, <1>2, <1>3, <1>5
<1>7. kn[1] = P
  BY <1>1, <1>2, <1>4
<1>8. kn[Len(st) + 1] = R
  <2>1. Len(t) + 1 \in 1 .. Len(t) + 1 /\ Len(st) + 1 = n + (Len(t) + 1)
    BY <1>1
  <2> QED
    BY <1>3, <1>5, <2>1
<1> HIDE DEF kn
<1>9. ASSUME NEW k \in 1 .. n + Len(t) PROVE Entitled(st[k], kn[k], kn[k + 1])
  <2>1. CASE k \in 1 .. n
    <3>1. st[k] = s[k] /\ kn[k] = ks[k] /\ kn[k + 1] = ks[k + 1]
      <4>1. \A i \in 1 .. n + 1 : kn[i] = ks[i]
        BY <1>1, <1>4, <1>6
      <4> QED
        BY <1>1, <2>1, <4>1
    <3> QED
      BY <1>1, <1>2, <2>1, <3>1 DEF Course
  <2>2. CASE \E i \in 1 .. Len(t) : k = n + i
    <3>1. PICK i \in 1 .. Len(t) : k = n + i
      BY <2>2
    <3>2. i \in 1 .. Len(t) + 1 /\ i + 1 \in 1 .. Len(t) + 1 /\ k + 1 = n + (i + 1)
      BY <1>1, <3>1
    <3>3. st[k] = t[i] /\ kn[k] = kt[i] /\ kn[k + 1] = kt[i + 1]
      BY <1>1, <1>5, <3>1, <3>2
    <3> QED
      BY <1>1, <1>3, <3>1, <3>3 DEF Course
  <2> QED
    BY <1>1, <2>1, <2>2
<1>10. Course(st, kn)
  BY <1>1, <1>9 DEF Course
<1> QED
  BY <1>1, <1>7, <1>8, <1>10 DEF Leads, st

(* Calls that grant members nothing.                                       *)
LEMMA Constantly ==
  ASSUME NEW P, NEW s, Script(s), \A i \in DOMAIN s : Entitled(s[i], P, P)
  PROVE  Leads(P, s, P)
<1> DEFINE kn == [i \in 1 .. Len(s) + 1 |-> P]
<1>1. Len(s) \in Nat /\ DOMAIN s = 1 .. Len(s)
  BY LenProperties DEF Script
<1>2. kn[1] = P /\ kn[Len(s) + 1] = P /\ \A i \in 1 .. Len(s) : kn[i] = P /\ kn[i + 1] = P
  BY <1>1
<1> HIDE DEF kn
<1>3. Course(s, kn)
  BY <1>1, <1>2 DEF Course
<1> QED
  BY <1>2, <1>3 DEF Leads

(* The pieces of granular_permission_enforcement: a permission is granted  *)
(* once a call without it has been refused,                                *)
LEMMA MatrixLeads == Leads({}, permissionMatrix, {})
<1>1. Script(permissionMatrix)
  BY DEF permissionMatrix, Script, Create, Do, Call, AnyCall, Callers, Ops, SpaceNames, Subjects, Words, Groups
<1>2. \A i \in DOMAIN permissionMatrix : Entitled(permissionMatrix[i], {}, {})
  BY DEF permissionMatrix, Entitled, Plain, Create, Do, Call
<1> QED
  BY <1>1, <1>2, Constantly

LEMMA RevokedLeads ==
  ASSUME NEW P, NEW role \in {"member", "owner"}, NEW permission \in Subjects
  PROVE  Leads(P, Revoked(role, permission), P)
<1>1. Script(Revoked(role, permission))
  BY DEF Revoked, Script, Do, Call, AnyCall, Callers, Ops, SpaceNames
<1>2. \A i \in DOMAIN Revoked(role, permission) : Entitled(Revoked(role, permission)[i], P, P)
  BY DEF Revoked, Entitled, Do, Call
<1> QED
  BY <1>1, <1>2, Constantly

LEMMA TriedLeads ==
  ASSUME NEW P, NEW permission \in Subjects \ P,
         NEW op \in {"update", "create", "post", "audit", "grant", "invite"}, permission = Permission[op],
         NEW space, space = IF op = "create" THEN "memberGroup" ELSE "matrix",
         NEW to \in {"b", "human", "moderator"}, op = "grant" => to = "moderator", NEW is \in Subjects
  PROVE  Leads(P, Tried(op, space, to, is, permission), P \cup {permission})
<1> DEFINE s == Tried(op, space, to, is, permission)
           Q == P \cup {permission}
           kn == << P, P, Q, Q >>
<1>1. Script(s) /\ Len(s) = 3 /\ DOMAIN s = 1 .. 3
  <2>1. s \in Seq(AnyCall)
    BY DEF Tried, Do, Denied, Call, AnyCall, Callers, Ops, SpaceNames, Groups
  <2> QED
    BY <2>1 DEF Tried, Script
<1>2. op \in DOMAIN Permission
  BY DEF Permission
<1>3. Entitled(s[1], P, P) /\ Entitled(s[2], P, Q) /\ Entitled(s[3], Q, Q)
  <2>1. s[1] = Denied("b", op, space, to, is) /\ s[2] = Do("a", "grant", "matrix", "member", permission)
        /\ s[3] = Do("b", op, space, to, is)
    BY DEF Tried
  <2>2. Entitled(s[1], P, P)
    BY <1>2, <2>1 DEF Entitled, Denied, Call
  <2>3. Entitled(s[2], P, Q)
    BY <2>1 DEF Entitled, Do, Call
  <2>4. Entitled(s[3], Q, Q)
    BY <2>1 DEF Entitled, Do, Call
  <2> QED
    BY <2>2, <2>3, <2>4
<1>4. kn[1] = P /\ kn[2] = P /\ kn[3] = Q /\ kn[4] = Q
  OBVIOUS
<1> HIDE DEF kn, s, Q
<1>5. Course(s, kn)
  BY <1>1, <1>3, <1>4 DEF Course
<1>6. Leads(P, s, Q)
  BY <1>1, <1>4, <1>5 DEF Leads
<1> QED
  BY <1>6 DEF s, Q

LEMMA RolesLeads ==
  ASSUME NEW P, "manage_roles" \notin P
  PROVE  Leads(P, managedRoles, P \cup {"manage_roles"})
<1> DEFINE Q == P \cup {"manage_roles"}
           kn == << P, P, Q, Q >>
<1>1. Script(managedRoles) /\ Len(managedRoles) = 3 /\ DOMAIN managedRoles = 1 .. 3
  BY DEF managedRoles, Script, Do, Denied, Call, AnyCall, Callers, Ops, SpaceNames, Subjects, Words, Groups
<1>2. Entitled(managedRoles[1], P, P)
  BY DEF managedRoles, Entitled, Denied, Call, Permission, Plain
<1>3. Entitled(managedRoles[2], P, Q)
  BY DEF managedRoles, Entitled, Do, Call
<1>4. Entitled(managedRoles[3], Q, Q)
  BY DEF managedRoles, Entitled, Do, Call
<1>5. kn[1] = P /\ kn[2] = P /\ kn[3] = Q /\ kn[4] = Q
  OBVIOUS
<1> HIDE DEF kn, Q
<1>6. Course(managedRoles, kn)
  BY <1>1, <1>2, <1>3, <1>4, <1>5 DEF Course
<1>7. Leads(P, managedRoles, Q)
  BY <1>1, <1>5, <1>6 DEF Leads
<1> QED
  BY <1>7 DEF Q

(* the permissions that are tried,                                         *)
LEMMA Tries ==
  /\ Permission["update"] = "manage_settings" /\ Permission["create"] = "create_groups"
  /\ Permission["post"] = "create_posts" /\ Permission["audit"] = "view_audit"
  /\ Permission["grant"] = "manage_permissions" /\ Permission["invite"] = "invite_members"
  /\ {"manage_settings", "create_groups", "create_posts", "view_audit", "manage_permissions",
      "invite_members", "any", "public", "moderate_posts"} \subseteq Subjects
BY DEF Permission, Subjects, Words

(* and so, piece by piece, for the whole of it.                            *)
LEMMA GranularScript == \E Q : Leads({}, granularPermission, Q)
<1> DEFINE p1 == {"manage_settings"}
           p2 == p1 \cup {"create_groups"}
           p3 == p2 \cup {"create_posts"}
           p4 == p3 \cup {"view_audit"}
           p5 == p4 \cup {"manage_roles"}
           p6 == p5 \cup {"manage_permissions"}
           p7 == p6 \cup {"invite_members"}
           s1 == permissionMatrix \o Tried("update", "matrix", "b", "public", "manage_settings")
           s2 == s1 \o Revoked("member", "manage_settings")
           s3 == s2 \o Tried("create", "memberGroup", "b", "public", "create_groups")
           s4 == s3 \o Revoked("member", "create_groups")
           s5 == s4 \o Tried("post", "matrix", "b", "any", "create_posts")
           s6 == s5 \o Revoked("member", "create_posts")
           s7 == s6 \o Tried("audit", "matrix", "b", "any", "view_audit")
           s8 == s7 \o managedRoles
           s9 == s8 \o Tried("grant", "matrix", "moderator", "moderate_posts", "manage_permissions")
           edited == << Do("c", "edit", "matrix", "b", "any") >>
           s10 == s9 \o edited
           s11 == s10 \o Tried("invite", "matrix", "human", "any", "invite_members")
           s12 == s11 \o Revoked("owner", "manage_settings")
           updated == << Do("a", "update", "matrix", "a", "public") >>
<1>1. Leads({}, s1, p1)
  <2>1. Leads({}, Tried("update", "matrix", "b", "public", "manage_settings"), {} \cup {"manage_settings"})
    BY TriedLeads, Tries
  <2> QED
    BY <2>1, MatrixLeads, LeadsOn
<1> HIDE DEF s1
<1>2. Leads({}, s2, p1)
  <2>1. Leads(p1, Revoked("member", "manage_settings"), p1)
    BY RevokedLeads DEF Subjects, Words
  <2> QED
    BY <1>1, <2>1, LeadsOn
<1> HIDE DEF s2
<1>3. Leads({}, s3, p2)
  <2>1. Leads(p1, Tried("create", "memberGroup", "b", "public", "create_groups"), p2)
    BY TriedLeads, Tries
  <2> QED
    BY <1>2, <2>1, LeadsOn
<1> HIDE DEF s3
<1>4. Leads({}, s4, p2)
  <2>1. Leads(p2, Revoked("member", "create_groups"), p2)
    BY RevokedLeads DEF Subjects, Words
  <2> QED
    BY <1>3, <2>1, LeadsOn
<1> HIDE DEF s4
<1>5. Leads({}, s5, p3)
  <2>1. Leads(p2, Tried("post", "matrix", "b", "any", "create_posts"), p3)
    BY TriedLeads, Tries
  <2> QED
    BY <1>4, <2>1, LeadsOn
<1> HIDE DEF s5
<1>6. Leads({}, s6, p3)
  <2>1. Leads(p3, Revoked("member", "create_posts"), p3)
    BY RevokedLeads DEF Subjects, Words
  <2> QED
    BY <1>5, <2>1, LeadsOn
<1> HIDE DEF s6
<1>7. Leads({}, s7, p4)
  <2>1. Leads(p3, Tried("audit", "matrix", "b", "any", "view_audit"), p4)
    BY TriedLeads, Tries
  <2> QED
    BY <1>6, <2>1, LeadsOn
<1> HIDE DEF s7
<1>8. Leads({}, s8, p5)
  <2>1. Leads(p4, managedRoles, p5)
    BY RolesLeads
  <2> QED
    BY <1>7, <2>1, LeadsOn
<1> HIDE DEF s8
<1>9. Leads({}, s9, p6)
  <2>1. Leads(p5, Tried("grant", "matrix", "moderator", "moderate_posts", "manage_permissions"), p6)
    BY TriedLeads, Tries
  <2> QED
    BY <1>8, <2>1, LeadsOn
<1> HIDE DEF s9
<1>10. Leads({}, s10, p6)
  <2>1. Script(edited)
    BY DEF Script, Do, Call, AnyCall, Callers, Ops, SpaceNames, Subjects, Words
  <2>2. \A i \in DOMAIN edited : Entitled(edited[i], p6, p6)
    BY DEF Entitled, Do, Call
  <2>3. Leads(p6, edited, p6)
    <3> HIDE DEF p6, edited
    <3> QED
      BY <2>1, <2>2, Constantly
  <2> QED
    BY <1>9, <2>3, LeadsOn
<1> HIDE DEF s10
<1>11. Leads({}, s11, p7)
  <2>1. Leads(p6, Tried("invite", "matrix", "human", "any", "invite_members"), p7)
    BY TriedLeads, Tries
  <2> QED
    BY <1>10, <2>1, LeadsOn
<1> HIDE DEF s11
<1>12. Leads({}, s12, p7)
  <2>1. Leads(p7, Revoked("owner", "manage_settings"), p7)
    BY RevokedLeads DEF Subjects, Words
  <2> QED
    BY <1>11, <2>1, LeadsOn
<1> HIDE DEF s12
<1>13. Leads({}, s12 \o updated, p7)
  <2>1. Script(updated)
    BY DEF Script, Do, Call, AnyCall, Callers, Ops, SpaceNames, Subjects, Words
  <2>2. \A i \in DOMAIN updated : Entitled(updated[i], p7, p7)
    BY DEF Entitled, Do, Call
  <2>3. Leads(p7, updated, p7)
    <3> HIDE DEF p7, updated
    <3> QED
      BY <2>1, <2>2, Constantly
  <2> QED
    BY <1>12, <2>3, LeadsOn
<1>14. granularPermission = s12 \o updated
  BY DEF granularPermission, s1, s2, s3, s4, s5, s6, s7, s8, s9, s10, s11, s12
<1> QED
  BY <1>13, <1>14

-----------------------------------------------------------------------------
(* The order of the scenarios.                                             *)
LEMMA Leasts ==
  ASSUME NEW S \in SUBSET Nat, S # {}
  PROVE  Min(S) \in S
<1>1. PICK least \in S : \A n \in S : ~(<<n, least>> \in OpToRel(<, Nat))
  BY NatLessThanWellFounded, WFMin
<1>3. \A n \in S : ~(n < least)
  BY <1>1 DEF OpToRel
<1>2. \A n \in S : least <= n
  BY <1>3
<1> QED
  BY <1>2 DEF Min

(* The table of Harness.Run has 25 entries.                                *)
LEMMA ScenarioIndices == Len(Scenarios) = 25 /\ DOMAIN Scenarios = 1 .. 25
BY DEF Scenarios

(* What follows is a scenario of the profile, or the end of the table.     *)
LEMMA FollowingScheduled ==
  ASSUME NEW p \in Profiles, NEW i \in 0 .. Len(Scenarios)
  PROVE  Following[p][i] \in Scheduled[p] \cup {Len(Scenarios) + 1}
<1> DEFINE later == {j \in Scheduled[p] : j > i} \cup {Len(Scenarios) + 1}
<1>1. later \in SUBSET Nat /\ later # {}
  BY ScenarioIndices DEF Scheduled
<1>2. Min(later) \in later
  BY <1>1, Leasts
<1> QED
  BY <1>2 DEF Following

(* Every script has a first call.                                          *)
LEMMA AllScripts == \A name \in DOMAIN Scripts : Script(Scripts[name])
<1>1. Script(granularPermission)
  BY GranularScript DEF Leads
<1> QED
  BY <1>1, GroupScript, UnauthorizedScript, IsolationScript, LifecycleScript, GroupsScript, 
     NotificationScript, ShortScripts DEF Scripts, KeptOut

(* The four scripts above are the only ones that accuse.                   *)
LEMMA MildScripts ==
  ASSUME NEW name \in DOMAIN Scripts,
         name \notin {"group_membership_history", "unauthorized_access", "security_isolation_abuse",
                      "granular_permission_enforcement"}
  PROVE  Mild(Scripts[name])
BY LifecycleScript, GroupsScript, NotificationScript, ShortScripts DEF Scripts

(* What may have been granted to members before each call.                 *)
Known == CHOOSE kn : kn[1] = {} /\ Course(granularPermission, kn)

(* It exists, as the script leads somewhere.                               *)
LEMMA KnownCourse == Course(granularPermission, Known)
<1>1. \E kn : kn[1] = {} /\ Course(granularPermission, kn)
  BY GranularScript DEF Leads
<1> QED
  BY <1>1 DEF Known

-----------------------------------------------------------------------------
(* The invariant: where the run is; what the spaces are;                   *)
Placed ==
  /\ profile \in Profiles /\ scenario \in Scheduled[profile] \cup {Len(Scenarios) + 1}
  /\ Running => step \in DOMAIN Scripts[Name]
  /\ step = 1 => DOMAIN spaces \subseteq {"main", "publicGroup"}
Shaped == \A name \in DOMAIN spaces : Shape(spaces[name])

(* As long as the server has done nothing it may be accused of: who left   *)
(* is out, who was kept out is, and a plain member has what was granted.   *)
Wronged == breached \/ bypassed
GateLeft ==
  Name = "group_membership_history" /\ step > 10 /\ "membershipGate" \in DOMAIN spaces =>
    "c" \notin spaces["membershipGate"].members
OutsiderKept ==
  Name = "security_isolation_abuse" =>
    \A n \in Isolated \cap DOMAIN spaces : spaces[n].owner = "c" /\ "b" \notin spaces[n].members
MemberPlain ==
  Name = "granular_permission_enforcement" /\ "matrix" \in DOMAIN spaces =>
    /\ spaces["matrix"].owner = "a" /\ spaces["matrix"].role["b"] \in Plain
    /\ \A role \in Plain : \A permission :
         <<role, permission>> \in spaces["matrix"].granted =>
           role = "member" /\ permission \in Known[step]

(* Who is accused is guilty, and has failed.                               *)
Accounts == breached \in BOOLEAN /\ bypassed \in BOOLEAN /\ violations \in Nat /\ AccusedIsGuilty
Innocence == ~Wronged => (Running => GateLeft /\ OutsiderKept /\ MemberPlain)

Blame == Placed /\ Shaped /\ Innocence /\ Accounts

(* Where a scenario goes on there is a call.                               *)
LEMMA Playing ==
  ASSUME Placed, Running
  PROVE  /\ scenario \in 1 .. 25 /\ Name \in DOMAIN Scripts /\ Script(Scripts[Name])
         /\ DOMAIN Scripts[Name] = 1 .. Len(Scripts[Name]) /\ Len(Scripts[Name]) \in Nat
         /\ Current \in AnyCall /\ step \in Nat
<1>1. scenario \in 1 .. 25 /\ scenario \in Scheduled[profile]
  BY ScenarioIndices DEF Placed, Running
<1>2. Name \in DOMAIN Scripts
  BY <1>1 DEF Scheduled, Name, Placed
<1>3. Script(Scripts[Name])
  BY <1>2, AllScripts
<1>4. DOMAIN Scripts[Name] = 1 .. Len(Scripts[Name]) /\ Len(Scripts[Name]) \in Nat
  BY <1>3, LenProperties DEF Script
<1>5. Current \in AnyCall
  BY <1>3, <1>4, ElementOfSeq DEF Placed, Current, Script
<1> QED
  BY <1>1, <1>2, <1>3, <1>4, <1>5 DEF Placed

(* Input that may be taken without being accused of it.                    *)
Harmless == Malformed \ {"badManifest"}

(* A step, answered or not, whose effect is all before the scenario's end. *)
Moved(all, answer) ==
  /\ Running /\ Judge(answer) /\ UNCHANGED <<profile, defects>>
  /\ spaces' = InReach(all, answer)
  /\ breached' \in BOOLEAN /\ bypassed' \in BOOLEAN /\ (Wronged => Wronged')
  /\ all = spaces \/ (Admits(Current) /\ all = Spaces(Current))
  /\ all # spaces \/ answer \notin {"refusal", "lost"} =>
       /\ Admits(Current)
       /\ Wronged' \/ Permitted(Current, Target(Current)) \/ Current.op \in Harmless
  /\ answer = "success" /\ Current.op = "leave" => Wronged' \/ all = Spaces(Current)

(* A call that was handled is such a step,                                 *)
LEMMA HandleMoves ==
  ASSUME NEW answer, Running, Judge(answer), UNCHANGED <<profile, defects>>, Handle(Current, answer),
         Admits(Current) \/ answer \in {"refusal", "lost"}, breached \in BOOLEAN, bypassed \in BOOLEAN
  PROVE  \E all : Moved(all, answer)
<1> DEFINE effective == Admits(Current) /\ <<"void", Current.op>> \notin defects
           all == IF effective THEN Spaces(Current) ELSE spaces
<1>1. spaces' = InReach(all, answer)
  BY DEF Handle
<1>2. breached' \in BOOLEAN /\ bypassed' \in BOOLEAN /\ (Wronged => Wronged')
  BY DEF Handle, Wronged
<1>3. Admits(Current) => Wronged' \/ Permitted(Current, Target(Current)) \/ Current.op \in Harmless
  BY DEF Handle, Wronged, Harmless
<1>4. Admits(Current) /\ Current.op = "leave" => Wronged' \/ <<"void", "leave">> \notin defects
  BY DEF Handle, Wronged, Malformed
<1>5. answer = "success" /\ Current.op = "leave" => Wronged' \/ all = Spaces(Current)
  BY <1>4
<1>6. all # spaces => Admits(Current)
  OBVIOUS
<1>7. all = spaces \/ (Admits(Current) /\ all = Spaces(Current))
  OBVIOUS
<1> HIDE DEF all
<1>8. Moved(all, answer)
  BY <1>1, <1>2, <1>3, <1>5, <1>6, <1>7 DEF Moved
<1> QED
  BY <1>8

(* and so is every other.                                                  *)
LEMMA Moves ==
  ASSUME Next, breached \in BOOLEAN, bypassed \in BOOLEAN
  PROVE  \E all, answer : Moved(all, answer)
<1>1. CASE Answered
  <2>1. Admits(Current) \/ Answer(Current) \in {"refusal", "lost"}
    BY DEF Answer
  <2> DEFINE answer == Answer(Current)
  <2>2. Running /\ Handle(Current, answer) /\ Judge(answer) /\ UNCHANGED <<profile, defects>>
    BY <1>1 DEF Answered
  <2> HIDE DEF answer
  <2>3. Admits(Current) \/ answer \in {"refusal", "lost"}
    BY <2>1 DEF answer
  <2> QED
    BY <2>2, <2>3, HandleMoves
<1>2. CASE Lost
  <2>1. Running /\ Judge("lost") /\ UNCHANGED <<profile, defects>>
    BY <1>2 DEF Lost
  <2>2. CASE Handle(Current, "lost")
    BY <2>1, <2>2, HandleMoves
  <2>3. CASE spaces' = InReach(spaces, "lost") /\ UNCHANGED <<inbox, breached, bypassed>>
    <3>1. Moved(spaces, "lost")
      BY <2>1, <2>3 DEF Moved, Wronged
    <3> QED
      BY <3>1
  <2> QED
    BY <1>2, <2>2, <2>3 DEF Lost
<1> QED
  BY <1>1, <1>2 DEF Next

(* A step goes on in the script or to the next scenario, which starts      *)
(* with nothing but what the earlier ones left.                            *)
LEMMA MovesOn ==
  ASSUME NEW all, NEW answer, Placed, Moved(all, answer)
  PROVE  /\ Over(answer) => /\ step' = 1
                            /\ scenario' \in Scheduled[profile] \cup {Len(Scenarios) + 1}
                            /\ DOMAIN spaces' \subseteq {"main", "publicGroup"}
         /\ ~Over(answer) => /\ step' = step + 1 /\ scenario' = scenario /\ spaces' = all
                             /\ AsExpected(Current.expect, answer) /\ step + 1 \in DOMAIN Scripts[Name]
<1>1. scenario \in 1 .. 25 /\ profile \in Profiles
  BY Playing DEF Moved, Placed
<1>2. Following[profile][scenario] \in Scheduled[profile] \cup {Len(Scenarios) + 1}
  BY <1>1, FollowingScheduled, ScenarioIndices
<1>3. /\ DOMAIN Scripts[Name] = 1 .. Len(Scripts[Name]) /\ Len(Scripts[Name]) \in Nat
      /\ step \in DOMAIN Scripts[Name]
  BY Playing DEF Moved, Placed
<1>4. CASE Over(answer)
  <2>1. step' = 1 /\ scenario' = Following[profile][scenario]
    BY <1>4 DEF Moved, Judge
  <2>2. spaces' = [name \in DOMAIN all \cap {"main", "publicGroup"} |-> all[name]]
    BY <1>4 DEF Moved, InReach
  <2> QED
    BY <1>2, <1>4, <2>1, <2>2
<1>5. CASE ~Over(answer)
  <2>1. step' = step + 1 /\ scenario' = scenario
    BY <1>5 DEF Moved, Judge
  <2>2. spaces' = all
    BY <1>5 DEF Moved, InReach
  <2>3. AsExpected(Current.expect, answer) /\ step # Len(Scripts[Name])
    BY <1>5 DEF Over
  <2> QED
    BY <1>3, <1>5, <2>1, <2>2, <2>3
<1> QED
  BY <1>4, <1>5

(* The run is always at a call of a script of the profile's.               *)
LEMMA PlacedInit == Init => Placed
<1> SUFFICES ASSUME Init PROVE Placed
  OBVIOUS
<1>1. /\ profile \in Profiles /\ scenario \in Scheduled[profile] \cup {Len(Scenarios) + 1}
      /\ step = 1 /\ spaces = << >>
  BY FollowingScheduled, ScenarioIndices DEF Init
<1>2. Running => 1 \in DOMAIN Scripts[Name]
  <2> SUFFICES ASSUME Running PROVE 1 \in DOMAIN Scripts[Name]
    OBVIOUS
  <2>1. scenario \in Scheduled[profile]
    <3>1. scenario \in 1 .. 25 /\ 26 \notin 1 .. 25
      BY ScenarioIndices DEF Running
    <3> QED
      BY <1>1, <3>1, ScenarioIndices
  <2>2. Script(Scripts[Name])
    BY <1>1, <2>1, AllScripts DEF Scheduled, Name
  <2> QED
    BY <2>2, LenProperties DEF Script
<1>3. DOMAIN spaces \subseteq {"main", "publicGroup"}
  BY <1>1
<1> QED
  BY <1>1, <1>2, <1>3 DEF Placed

LEMMA PlacedNext ==
  ASSUME NEW all, NEW answer, Placed, Moved(all, answer)
  PROVE  Placed'
<1>1. profile' = profile /\ profile \in Profiles /\ Scheduled' = Scheduled
  BY DEF Moved, Placed, Scheduled
<1>2. CASE Over(answer)
  <2>1. /\ step' = 1 /\ scenario' \in Scheduled[profile] \cup {Len(Scenarios) + 1}
        /\ DOMAIN spaces' \subseteq {"main", "publicGroup"}
    BY <1>2, MovesOn
  <2>2. Running' => 1 \in DOMAIN Scripts[Name']
    <3> SUFFICES ASSUME scenario' \in DOMAIN Scenarios PROVE 1 \in DOMAIN Scripts[Name']
      BY DEF Running
    <3>1. scenario' \in Scheduled[profile]
      BY <2>1, ScenarioIndices
    <3>2. Script(Scripts[Name'])
      BY <1>1, <3>1, AllScripts DEF Scheduled, Name
    <3> QED
      BY <3>2, LenProperties DEF Script
  <2> QED
    BY <1>1, <2>1, <2>2 DEF Placed
<1>3. CASE ~Over(answer)
  <2>1. step' = step + 1 /\ scenario' = scenario /\ step + 1 \in DOMAIN Scripts[Name]
    BY <1>3, MovesOn
  <2>2. Name' = Name /\ step \in 1 .. Len(Scripts[Name]) /\ Len(Scripts[Name]) \in Nat
    BY <2>1, Playing DEF Name, Moved, Placed
  <2>3. step' \in DOMAIN Scripts[Name'] /\ step' # 1
    BY <2>1, <2>2
  <2>4. scenario' \in Scheduled[profile] \cup {Len(Scenarios) + 1}
    BY <2>1 DEF Placed
  <2> QED
    BY <1>1, <2>3, <2>4 DEF Placed
<1> QED
  BY <1>2, <1>3

(* Every space keeps its shape.                                            *)
LEMMA TargetShape ==
  ASSUME NEW call, Shaped, There(call)
  PROVE  Shape(Target(call))
BY SpaceShape DEF Shaped, There, Target

LEMMA AppliedShape ==
  ASSUME NEW who, NEW server, Shaped
  PROVE  \A name \in DOMAIN Applied(who, server) : Shape(Applied(who, server)[name])
<1> DEFINE Kept(part) == <<"omits", part>> \notin defects
           Entered(name) ==
             /\ who \notin spaces[name].members
             /\ \/ name = server /\ Kept("join")
                \/ /\ name \in Groups /\ Within(name) = server /\ spaces[name].policy = "public"
                   /\ Kept("groups")
           Visited(name) == IF Entered(name) THEN Joined(spaces[name], who, name) ELSE spaces[name]
           Followed(name) == IF name = server /\ Kept("follows")
                             THEN [Visited(name) EXCEPT !.followers = @ \cup {who}] ELSE Visited(name)
<1>1. Applied(who, server) = [name \in DOMAIN spaces |-> Followed(name)]
  BY DEF Applied
<1>2. ASSUME NEW name \in DOMAIN spaces PROVE Shape(Followed(name))
  <2>1. Shape(Visited(name))
    <3> HIDE DEF Entered
    <3> QED
      BY JoinedShape DEF Shaped
  <2> HIDE DEF Visited
  <2>2. Shape([Visited(name) EXCEPT !.followers = @ \cup {who}])
    BY <2>1 DEF Shape, Fields
  <2> HIDE DEF Kept
  <2> QED
    BY <2>1, <2>2
<1> HIDE DEF Followed
<1> QED
  BY <1>1, <1>2

LEMMA SpacesShape ==
  ASSUME NEW call, Shaped, There(call)
  PROVE  \A name \in DOMAIN Spaces(call) : Shape(Spaces(call)[name])
<1>1. CASE call.op = "apply"
  BY <1>1, AppliedShape DEF Spaces
<1>2. CASE call.op = "impersonate"
  BY <1>2 DEF Spaces, Shaped
<1>3. CASE call.op \notin {"apply", "impersonate"}
  <2>1. Spaces(call) = [name \in DOMAIN spaces \cup {call.space} |->
                         IF name = call.space THEN Effect(call, Target(call)) ELSE spaces[name]]
    BY <1>3 DEF Spaces
  <2>2. Shape(Effect(call, Target(call)))
    BY TargetShape, EffectShape
  <2> QED
    BY <2>1, <2>2 DEF Shaped
<1> QED
  BY <1>1, <1>2, <1>3

LEMMA ShapedNext ==
  ASSUME NEW all, NEW answer, Shaped, Moved(all, answer)
  PROVE  Shaped'
<1>1. \A name \in DOMAIN all : Shape(all[name])
  BY SpacesShape DEF Moved, Admits, Shaped
<1>2. \A name \in DOMAIN spaces' : name \in DOMAIN all /\ spaces'[name] = all[name]
  BY DEF Moved, InReach
<1> QED
  BY <1>1, <1>2 DEF Shaped

(* What a call leaves of the spaces.                                       *)
LEMMA SpacesElse ==
  ASSUME NEW call, call.op \notin {"apply", "impersonate"}
  PROVE  /\ DOMAIN Spaces(call) = DOMAIN spaces \cup {call.space}
         /\ Spaces(call)[call.space] = Effect(call, Target(call))
         /\ \A name \in DOMAIN spaces : name # call.space => Spaces(call)[name] = spaces[name]
BY DEF Spaces

(* What is refused: who has left may neither send nor read.                *)
LEMMA GateRefuses ==
  ASSUME Placed, Running, Name = "group_membership_history", GateLeft, step > 10, Admits(Current)
  PROVE  ~Permitted(Current, Target(Current)) /\ Current.op \notin Harmless
<1>1. Current \in {Denied("c", "send", "membershipGate", "c", "any"),
                   Denied("c", "read", "membershipGate", "c", "history")}
  <2>1. step \in 1 .. 12 /\ Current = groupMembership[step]
    BY Playing, GroupScript DEF Scripts, Current, Placed
  <2> QED
    BY <2>1, GroupScript
<1>2. /\ Current.who = "c" /\ Current.space = "membershipGate" /\ Current.op \in {"send", "read"}
  BY <1>1 DEF Denied, Call
<1>3. "membershipGate" \in DOMAIN spaces /\ Target(Current) = spaces["membershipGate"]
  BY <1>2 DEF Admits, There, Target
<1>4. "c" \notin Target(Current).members
  BY <1>3 DEF GateLeft
<1> QED
  BY <1>2, <1>4 DEF Permitted, Harmless, Malformed

(* b is no member of c's spaces, and no owner.                             *)
LEMMA OutsiderRefused ==
  ASSUME Placed, Shaped, Running, Name = "security_isolation_abuse", OutsiderKept, Admits(Current),
         Current.expect = "denial"
  PROVE  ~Permitted(Current, Target(Current)) /\ Current.op \notin Harmless
<1>1. KeepsOut(Current)
  BY Playing, IsolationScript DEF Scripts, Current, KeptOut, Placed
<1>9. CASE Current.op = "badManifest"
  BY <1>9 DEF Permitted, Malformed, Harmless
<1> SUFFICES ASSUME Current.op # "badManifest"
             PROVE  ~Permitted(Current, Target(Current)) /\ Current.op \notin Harmless
  BY <1>9
<1>2. /\ Current.space \in Isolated /\ Current.who = "b"
      /\ Current.op \in {"members", "read", "send", "setRole", "accept", "approve", "find", "sync"}
      /\ Current.op = "accept" => Current.to # "b"
      /\ Current.op = "find" => Current.space = "isolatedGroup"
  BY <1>1 DEF KeepsOut
<1> SUFFICES ~Permitted(Current, Target(Current))
  BY <1>2 DEF Harmless, Malformed
<1>3. Current.space \in DOMAIN spaces /\ Target(Current) = spaces[Current.space]
  BY <1>2 DEF Admits, There, Target
<1>4. Target(Current).owner = "c" /\ "b" \notin Target(Current).members
  BY <1>2, <1>3 DEF OutsiderKept
<1>5. \A permission : ~Has(Target(Current), "b", permission)
  BY <1>4 DEF Has
<1>6. CASE Current.op \in {"members", "read", "send", "sync"}
  BY <1>2, <1>4, <1>6 DEF Permitted
<1>10. CASE Current.op = "find"
  <2>1. Current.space \in Groups /\ Within(Current.space) = "isolated"
    BY <1>2, <1>10 DEF Groups, Within
  <2>2. "isolated" \in DOMAIN spaces
    BY <2>1 DEF Admits, There
  <2>3. "b" \notin spaces["isolated"].members
    BY <2>2 DEF OutsiderKept, Isolated
  <2> QED
    BY <1>2, <1>10, <2>1, <2>3 DEF Permitted
<1>7. CASE Current.op \in {"setRole", "approve"}
  BY <1>2, <1>5, <1>7 DEF Permitted
<1>8. CASE Current.op = "accept"
  BY <1>2, <1>8 DEF Permitted
<1> QED
  BY <1>2, <1>6, <1>7, <1>8, <1>10

(* A plain member is not permitted what has not been granted to members.   *)
LEMMA MemberRefused ==
  ASSUME Placed, Shaped, Running, Name = "granular_permission_enforcement", MemberPlain, Admits(Current),
         Current.expect = "denial"
  PROVE  ~Permitted(Current, Target(Current)) /\ Current.op \notin Harmless
<1>1. Entitled(Current, Known[step], Known[step + 1])
  BY Playing, KnownCourse DEF Scripts, Current, Course, Placed
<1> DEFINE permission == Permission[Current.op]
<1>2. /\ Current.who = "b" /\ permission \notin Known[step]
      /\ Current.op \in {"create", "setRole", "update", "grant", "revoke", "post", "audit", "edit", "invite"}
      /\ Current.space = IF Current.op = "create" THEN "memberGroup" ELSE "matrix"
  BY <1>1 DEF Entitled, Permission
<1> SUFFICES ~Permitted(Current, Target(Current))
  BY <1>2 DEF Harmless, Malformed
<1>3. "matrix" \in DOMAIN spaces
  BY <1>2 DEF Admits, There, Within, Groups
<1>4. /\ spaces["matrix"].owner # "b" /\ spaces["matrix"].role["b"] \in Plain
      /\ <<spaces["matrix"].role["b"], permission>> \notin spaces["matrix"].granted
  <2> HIDE DEF permission
  <2> QED
    BY <1>2, <1>3 DEF MemberPlain
<1>5. ~Has(spaces["matrix"], "b", permission)
  <2> HIDE DEF permission
  <2> QED
    BY <1>4 DEF Has, Plain
<1>6. CASE Current.op = "create"
  <2>1. Current.space \in Groups /\ Within(Current.space) = "matrix" /\ permission = Permission.create
    BY <1>2, <1>6 DEF Groups, Within
  <2> QED
    BY <1>2, <1>5, <1>6, <2>1 DEF Permitted
<1>7. CASE Current.op # "create"
  <2>1. Target(Current) = spaces["matrix"]
    BY <1>2, <1>7 DEF Target
  <2> QED
    BY <1>2, <1>5, <1>7, <2>1 DEF Permitted
<1> QED
  BY <1>6, <1>7

(* Whatever must be denied, an honest server refuses.                      *)
LEMMA DenialRefused ==
  ASSUME Placed, Shaped, Innocence, Running, Current.expect = "denial", Admits(Current), ~Wronged
  PROVE  ~Permitted(Current, Target(Current)) /\ Current.op \notin Harmless
<1>1. GateLeft /\ OutsiderKept /\ MemberPlain
  BY DEF Innocence
<1>2. Name \in DOMAIN Scripts /\ step \in DOMAIN Scripts[Name]
  BY Playing DEF Placed
<1>3. CASE Name = "group_membership_history"
  <2>1. step > 10
    BY <1>2, <1>3, GroupScript DEF Scripts, Current
  <2> QED
    BY <1>1, <1>3, <2>1, GateRefuses
<1>4. CASE Name = "unauthorized_access"
  <2>1. Current.op = "impersonate"
    BY <1>2, <1>4, UnauthorizedScript DEF Scripts, Current
  <2> QED
    BY <2>1 DEF Permitted, Harmless, Malformed
<1>5. CASE Name = "security_isolation_abuse"
  BY <1>1, <1>5, OutsiderRefused
<1>6. CASE Name = "granular_permission_enforcement"
  BY <1>1, <1>6, MemberRefused
<1>7. CASE Name \notin {"group_membership_history", "unauthorized_access", "security_isolation_abuse",
                        "granular_permission_enforcement"}
  BY <1>2, <1>7, MildScripts DEF Mild, Current
<1> QED
  BY <1>3, <1>4, <1>5, <1>6, <1>7

(* Only who is guilty is accused: an accusation needs an admission.        *)
LEMMA AccountsNext ==
  ASSUME NEW all, NEW answer, Placed, Shaped, Innocence, Accounts, Moved(all, answer)
  PROVE  Accounts'
<1> DEFINE accused == ~AsExpected(Current.expect, answer) /\ Current.expect = "denial"
<1>1. /\ violations' = violations + (IF accused THEN 1 ELSE 0)
      /\ failed' = IF AsExpected(Current.expect, answer) THEN failed ELSE failed \cup {Name}
      /\ breached' \in BOOLEAN /\ bypassed' \in BOOLEAN /\ (Wronged => Wronged')
  BY DEF Moved, Judge
<1>2. CASE accused
  <2>1. answer \notin {"refusal", "lost"}
    BY <1>2 DEF AsExpected
  <2>2. /\ Running /\ Admits(Current)
        /\ Wronged' \/ Permitted(Current, Target(Current)) \/ Current.op \in Harmless
    BY <2>1 DEF Moved
  <2>3. Wronged'
    BY <1>1, <1>2, <2>2, DenialRefused
  <2>4. failed' # {}
    BY <1>1, <1>2
  <2> QED
    BY <1>1, <2>3, <2>4 DEF Accounts, AccusedIsGuilty, Wronged
<1>3. CASE ~accused
  <2>1. violations' = violations /\ (failed # {} => failed' # {})
    BY <1>1, <1>3 DEF Accounts
  <2> QED
    BY <1>1, <2>1 DEF Accounts, AccusedIsGuilty, Wronged
<1> QED
  BY <1>2, <1>3

-----------------------------------------------------------------------------
(* The server's honesty carries the rest of the invariant along.           *)
LEMMA GateNext ==
  ASSUME NEW all, NEW answer, Placed, Shaped, GateLeft, Moved(all, answer), ~Wronged', ~Over(answer),
         Name = "group_membership_history"
  PROVE  GateLeft'
<1>1. /\ step' = step + 1 /\ spaces' = all /\ AsExpected(Current.expect, answer)
      /\ step \in 1 .. 12 /\ Current = groupMembership[step] /\ Running
  BY MovesOn, Playing, GroupScript DEF Moved, Scripts, Current, Placed
<1>2. CASE step = 10
  <2>1. /\ Current.op = "leave" /\ Current.who = "c" /\ Current.space = "membershipGate"
        /\ Current.expect = "success"
    BY <1>1, <1>2, GroupScript DEF Do, Call
  <2>2. all = Spaces(Current) /\ Admits(Current)
    BY <1>1, <2>1 DEF AsExpected, Moved
  <2>3. all["membershipGate"] = Left(Target(Current), "c")
    BY <2>1, <2>2, SpacesElse DEF Effect
  <2>4. Shape(Target(Current))
    BY <2>2, TargetShape DEF Admits
  <2>5. "c" \notin all["membershipGate"].members
    BY <2>3, <2>4, LeftShape
  <2> QED
    BY <1>1, <2>5 DEF GateLeft
<1>3. CASE step > 10
  <2>1. all = spaces
    BY <1>1, <1>3, GateRefuses DEF Moved
  <2> QED
    BY <1>1, <1>3, <2>1 DEF GateLeft
<1>4. CASE step < 10
  BY <1>1, <1>4 DEF GateLeft
<1> QED
  BY <1>1, <1>2, <1>3, <1>4

(* Nobody lets b in but the server itself.                                 *)
LEMMA OutsiderNext ==
  ASSUME NEW all, NEW answer, Placed, Shaped, OutsiderKept, Moved(all, answer), ~Wronged', ~Over(answer),
         Name = "security_isolation_abuse"
  PROVE  \A n \in Isolated \cap DOMAIN all : all[n].owner = "c" /\ "b" \notin all[n].members
<1>1. KeepsOut(Current) /\ Running
  BY Playing, IsolationScript DEF Scripts, Current, KeptOut, Placed, Moved
<1>2. CASE all = spaces
  BY <1>2 DEF OutsiderKept
<1>3. CASE all # spaces
  <2>1. /\ Admits(Current) /\ all = Spaces(Current)
        /\ Permitted(Current, Target(Current)) \/ Current.op \in Harmless
    BY <1>3 DEF Moved
  <2>2. Current.expect # "denial"
    BY <1>1, <2>1, OutsiderRefused
  <2>3. /\ Current.op \in {"create", "members", "read", "send", "post", "setRole", "invite", "request",
                            "find", "sync", "compact", "futureCursor", "badManifest"}
        /\ Current.space \in Isolated /\ (Current.op = "create" => Current.who = "c")
    BY <1>1, <2>2 DEF KeepsOut
  <2> DEFINE target == Target(Current)
             effect == Effect(Current, target)
  <2>4. /\ DOMAIN all = DOMAIN spaces \cup {Current.space} /\ all[Current.space] = effect
        /\ \A n \in DOMAIN spaces : n # Current.space => all[n] = spaces[n]
    BY <2>1, <2>3, SpacesElse
  <2>5. Shape(target)
    BY <2>1, TargetShape DEF Admits
  <2>6. effect.owner = "c" /\ "b" \notin effect.members
    <3>1. CASE Current.op = "create"
      <4>1. effect = Space("c", Current.is)
        BY <2>3, <3>1 DEF Effect
      <4> QED
        BY <4>1 DEF Space
    <3>2. CASE Current.op # "create"
      <4>1. Current.space \in DOMAIN spaces /\ target = spaces[Current.space]
        BY <2>1, <2>3, <3>2 DEF Admits, There, Target
      <4>2. target.owner = "c" /\ "b" \notin target.members
        BY <2>3, <4>1 DEF OutsiderKept
      <4> HIDE DEF target
      <4>3. effect.owner = target.owner /\ effect.members \subseteq target.members
        BY <2>3, <2>5, <3>2, MembersOf
      <4> QED
        BY <4>2, <4>3
    <3> QED
      BY <3>1, <3>2
  <2> HIDE DEF effect
  <2> QED
    BY <2>3, <2>4, <2>6 DEF OutsiderKept
<1> QED
  BY <1>2, <1>3

(* Members get what is granted to them, and no role above their own.       *)
LEMMA MemberNext ==
  ASSUME NEW all, NEW answer, Placed, Shaped, MemberPlain, Moved(all, answer), ~Over(answer),
         Name = "granular_permission_enforcement", "matrix" \in DOMAIN all
  PROVE  /\ all["matrix"].owner = "a" /\ all["matrix"].role["b"] \in Plain
         /\ \A role \in Plain : \A permission :
              <<role, permission>> \in all["matrix"].granted =>
                role = "member" /\ permission \in Known[step + 1]
<1>1. Entitled(Current, Known[step], Known[step + 1])
  BY Playing, KnownCourse DEF Scripts, Current, Course, Placed, Moved
<1>2. Known[step] \subseteq Known[step + 1]
  BY <1>1 DEF Entitled
<1> DEFINE target == Target(Current)
           effect == Effect(Current, target)
<1>3. CASE "matrix" \in DOMAIN spaces /\ all["matrix"] = spaces["matrix"]
  BY <1>2, <1>3 DEF MemberPlain
<1>4. CASE ~("matrix" \in DOMAIN spaces /\ all["matrix"] = spaces["matrix"])
  <2>1. /\ Current.op \in {"create", "join", "setRole", "update", "grant", "revoke", "post", "audit",
                            "edit", "invite"}
        /\ (Current.op = "create" /\ Current.space = "matrix" => Current.who = "a")
        /\ (Current.op = "setRole" => Current.to = "c" \/ Current.is \in Plain)
        /\ Current.op = "grant" =>
             Current.to = "moderator" \/ (Current.to = "member" /\ Current.is \in Known[step + 1])
    BY <1>1 DEF Entitled
  <2>2. Admits(Current) /\ all = Spaces(Current)
    BY <1>4 DEF Moved
  <2>3. Current.space = "matrix" /\ all["matrix"] = effect
    BY <1>4, <2>1, <2>2, SpacesElse
  <2>4. Shape(target)
    BY <2>2, TargetShape DEF Admits
  <2>5. CASE Current.op = "create"
    <3>1. effect = Space("a", Current.is)
      BY <2>1, <2>3, <2>5 DEF Effect
    <3> HIDE DEF effect
    <3>2. effect.owner = "a" /\ effect.role["b"] = "none" /\ effect.granted = {}
      BY <3>1 DEF Space, People
    <3> QED
      BY <2>3, <3>2 DEF Plain
  <2>6. CASE Current.op # "create"
    <3>1. "matrix" \in DOMAIN spaces /\ target = spaces["matrix"]
      BY <2>1, <2>2, <2>3, <2>6 DEF Admits, There, Target
    <3>2. /\ target.owner = "a" /\ target.role["b"] \in Plain
          /\ \A role \in Plain : \A permission :
               <<role, permission>> \in target.granted => role = "member" /\ permission \in Known[step]
      BY <3>1 DEF MemberPlain
    <3> HIDE DEF target
    <3>3. effect.owner = "a"
      BY <2>4, <2>6, <3>2, MembersOf
    <3>4. effect.role["b"] \in Plain
      <4>1. CASE Current.op = "setRole" /\ Current.to = "b"
        <5>1. effect.role["b"] = Current.is
          BY <2>4, <4>1, RolesOf DEF People
        <5> QED
          BY <2>1, <4>1, <5>1
      <4>2. CASE ~(Current.op = "setRole" /\ Current.to = "b")
        <5>1. effect.role["b"] \in {target.role["b"], "member", "agent"}
          BY <2>1, <2>4, <2>6, <4>2, RolesOf DEF People
        <5> QED
          BY <3>2, <5>1 DEF Plain
      <4> QED
        BY <4>1, <4>2
    <3>5. effect.granted \subseteq
            target.granted \cup (IF Current.op = "grant" THEN {<<Current.to, Current.is>>} ELSE {})
      BY <2>1, <2>4, <2>6, RolesOf
    <3> HIDE DEF effect
    <3>6. ASSUME NEW role \in Plain, NEW permission, <<role, permission>> \in effect.granted
          PROVE  role = "member" /\ permission \in Known[step + 1]
      <4>1. CASE <<role, permission>> \in target.granted
        BY <1>2, <3>2, <4>1
      <4>2. CASE Current.op = "grant" /\ role = Current.to /\ permission = Current.is
        BY <2>1, <4>2 DEF Plain
      <4> QED
        BY <3>5, <3>6, <4>1, <4>2
    <3> QED
      BY <2>3, <3>3, <3>4, <3>6
  <2> QED
    BY <2>5, <2>6
<1> QED
  BY <1>3, <1>4

(* Together, and from one scenario to the next.                            *)
LEMMA InnocenceNext ==
  ASSUME NEW all, NEW answer, Placed, Shaped, Innocence, Moved(all, answer), Placed'
  PROVE  Innocence'
<1> SUFFICES ASSUME ~Wronged', Running' PROVE (GateLeft /\ OutsiderKept /\ MemberPlain)'
  BY DEF Innocence
<1>1. ~Wronged /\ Running /\ GateLeft /\ OutsiderKept /\ MemberPlain
  BY DEF Moved, Innocence
<1>2. CASE Over(answer)
  <2>1. step' = 1 /\ DOMAIN spaces' \subseteq {"main", "publicGroup"}
    BY <1>2, MovesOn
  <2> QED
    BY <2>1 DEF GateLeft, OutsiderKept, MemberPlain, Isolated
<1>3. CASE ~Over(answer)
  <2>1. step' = step + 1 /\ scenario' = scenario /\ spaces' = all
    BY <1>3, MovesOn
  <2>2. Name' = Name
    BY <2>1 DEF Name
  <2>3. GateLeft'
    <3>1. CASE Name = "group_membership_history"
      BY <1>1, <1>3, <3>1, GateNext
    <3>2. CASE Name # "group_membership_history"
      BY <2>2, <3>2 DEF GateLeft
    <3> QED
      BY <3>1, <3>2
  <2>4. OutsiderKept'
    <3>1. CASE Name = "security_isolation_abuse"
      BY <1>1, <1>3, <2>1, <3>1, OutsiderNext DEF OutsiderKept
    <3>2. CASE Name # "security_isolation_abuse"
      BY <2>2, <3>2 DEF OutsiderKept
    <3> QED
      BY <3>1, <3>2
  <2>5. MemberPlain'
    <3>1. CASE Name = "granular_permission_enforcement" /\ "matrix" \in DOMAIN all
      <4>1. /\ all["matrix"].owner = "a" /\ all["matrix"].role["b"] \in Plain
            /\ \A role \in Plain : \A permission :
                 <<role, permission>> \in all["matrix"].granted =>
                   role = "member" /\ permission \in Known[step + 1]
        BY <1>1, <1>3, <3>1, MemberNext
      <4> QED
        BY <2>1, <4>1 DEF MemberPlain
    <3>2. CASE ~(Name = "granular_permission_enforcement" /\ "matrix" \in DOMAIN all)
      BY <2>1, <2>2, <3>2 DEF MemberPlain
    <3> QED
      BY <3>1, <3>2
  <2> QED
    BY <2>3, <2>4, <2>5
<1> QED
  BY <1>2, <1>3

(* The inductive invariant.                                                *)
LEMMA BlameInit == Init => Blame
<1> SUFFICES ASSUME Init PROVE Blame
  OBVIOUS
<1>1. spaces = << >> /\ breached = FALSE /\ bypassed = FALSE /\ violations = 0 /\ step = 1
  BY DEF Init
<1>2. Shaped
  BY <1>1 DEF Shaped
<1>3. Accounts
  <2>1. ~(violations > 0) /\ violations \in Nat
    BY <1>1
  <2>2. breached \in BOOLEAN /\ bypassed \in BOOLEAN
    BY <1>1
  <2> QED
    BY <2>1, <2>2 DEF Accounts, AccusedIsGuilty
<1>4. Innocence
  BY <1>1 DEF Innocence, GateLeft, OutsiderKept, MemberPlain, Isolated
<1> QED
  BY <1>2, <1>3, <1>4, PlacedInit DEF Blame

LEMMA BlameNext == Blame /\ [Next]_vars => Blame'
<1> SUFFICES ASSUME Blame, [Next]_vars PROVE Blame'
  OBVIOUS
<1>1. CASE Next
  <2>1. PICK all, answer : Moved(all, answer)
    BY <1>1, Moves DEF Blame, Accounts
  <2>2. Placed /\ Shaped /\ Innocence /\ Accounts
    BY DEF Blame
  <2>3. Placed' /\ Shaped' /\ Accounts'
    BY <2>1, <2>2, PlacedNext, ShapedNext, AccountsNext
  <2>4. Innocence'
    BY <2>1, <2>2, <2>3, InnocenceNext
  <2> QED
    BY <2>3, <2>4 DEF Blame
<1>2. CASE UNCHANGED vars
  BY <1>2 DEF vars, Blame, Placed, Shaped, Innocence, Accounts, AccusedIsGuilty, GateLeft, OutsiderKept,
     MemberPlain, Running, Name, Scheduled, Wronged
<1> QED
  BY <1>1, <1>2

(* A server that is accused of an access control violation has committed   *)
(* one, or has taken the manifest that asks to bypass the join policy,     *)
(* whatever calls and answers were lost and however many defects it has,   *)
(* and it has failed a scenario: the violations that deny and expectDenied *)
(* of audit_v2.go count, and those that groupScenario and                  *)
(* unauthorizedScenario of benchmark.go do, for every set of profiles.     *)
THEOREM AccusedIsGuiltyHolds == Spec => []AccusedIsGuilty
<1>1. Blame => AccusedIsGuilty
  BY DEF Blame, Accounts
<1> QED
  BY <1>1, BlameInit, BlameNext, PTL DEF Spec

=============================================================================
