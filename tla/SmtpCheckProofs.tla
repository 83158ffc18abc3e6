---------------------------- MODULE SmtpCheckProofs ----------------------------
(***************************************************************************)
(* Proofs about SmtpCheck: type correctness, the bound on attempts and     *)
(* connections, that an attempt is given up only when it must be, that the *)
(* output is backed by the server's replies, that a proxy which is asked   *)
(* for is used, and that a refusal is final: for any addresses, settings   *)
(* and requests, any number of retries and any replies of the server.      *)
(***************************************************************************)
EXTENDS SmtpCheck, TLAPS

USE InputsAssumption

-----------------------------------------------------------------------------
(* Replies, errors and results.                                            *)

LEMMA VerdictType ==
  ASSUME NEW r \in Replies
  PROVE  Verdict(r) \in {{}} \union {{d} : d \in Deliverables}
<1>1. \A f, d, a \in BOOLEAN : Deliverability(f, d, a) \in Deliverables
  BY DEF Deliverability, Deliverables
<1> QED
  BY <1>1 DEF Verdict

LEMMA Fields ==
  ASSUME NEW f \in BOOLEAN, NEW d \in BOOLEAN, NEW a \in BOOLEAN
  PROVE  /\ Deliverability(f, d, a).has_full_inbox = f
         /\ Deliverability(f, d, a).is_deliverable = d
         /\ Deliverability(f, d, a).is_disabled = a
  BY DEF Deliverability

\* The verdict says that the address takes mail if and only if the reply does.
LEMMA VerdictTakes ==
  ASSUME NEW r \in Replies
  PROVE  (\E d \in Verdict(r) : d.is_deliverable) <=> Takes(r)
<1>1. CASE r = Accepted
  BY <1>1, Fields DEF Verdict, Takes
<1>2. CASE r # Accepted
  <2>1. Takes(r) <=> "rate" \in r.says /\ "disabled" \notin r.says /\ "full" \notin r.says
    BY <1>2 DEF Takes, Replies
  <2>2. CASE "disabled" \in r.says
    BY <1>2, <2>1, <2>2, Fields DEF Verdict, is_disabled_account
  <2>3. CASE "disabled" \notin r.says /\ "full" \in r.says
    BY <1>2, <2>1, <2>3, Fields DEF Verdict, is_disabled_account, is_full_inbox
  <2>4. CASE "disabled" \notin r.says /\ "full" \notin r.says
    BY <1>2, <2>1, <2>4, Fields
    DEF Verdict, is_disabled_account, is_full_inbox, ReceivesAtARate
  <2> QED
    BY <2>2, <2>3, <2>4
<1> QED
  BY <1>1, <1>2

\* A verdict that the mailbox is missing or disabled names it.
LEMMA VerdictNames ==
  ASSUME NEW r \in Replies, NEW d \in Verdict(r),
         ~d.has_full_inbox, ~d.is_deliverable \/ d.is_disabled
  PROVE  r \in Refusals /\ FromServer(r) /\ NoMailbox(r)
<1>1. r # Accepted
  BY Fields DEF Verdict
<1>2. r \in Refusals /\ r \in ReplyType
  BY <1>1 DEF Replies
<1>3. "disabled" \in r.says \/ is_invalid(r)
  BY <1>1, Fields DEF Verdict, is_disabled_account, is_full_inbox, ReceivesAtARate
<1>4. NoMailbox(r)
  BY <1>3 DEF is_invalid, NoMailbox
<1>5. r.sort \in {"permanent", "transient"}
  BY <1>2, <1>4 DEF ReplyType, NoMailbox
<1> QED
  BY <1>2, <1>4, <1>5 DEF FromServer

LEMMA ErrorsType ==
  /\ \A r \in Refusals : /\ AsyncSmtpError(r) \in Errors
                         /\ AsyncSmtpError(r).type = "AsyncSmtpError"
                         /\ Refuses(r) => get_description(AsyncSmtpError(r)) # "None"
  /\ \A type \in {"IOError", "Socks5", "Timeout", "HeadlessError", "YahooError"} :
       /\ Error(type) \in Errors /\ Error(type).type = type
       /\ get_description(Error(type)) = "None"
  BY DEF AsyncSmtpError, Error, Errors, Refuses, get_description

LEMMA ReachableType ==
  ASSUME NEW misc, NEW res
  PROVE  calculate_reachable(misc, res) \in {"safe", "risky", "invalid", "unknown"}
  BY DEF calculate_reachable

-----------------------------------------------------------------------------
(* The configuration of a check.                                           *)

LEMMA ConfTypes ==
  ASSUME NEW s \in Settings, NEW r \in Requests, NEW p \in Providers, NEW skip \in BOOLEAN,
         r.method \in {"default", "smtp", "headless", "api"}
  PROVE  Conf(s, r, p, skip) \in ConfType
<1> DEFINE input0 == IF r.bulk_v0 THEN TaskInput(r, p) ELSE to_check_email_input(s, r, p)
<1>1. s \in SettingsType /\ r \in RequestType
  OBVIOUS
<1>2. /\ s.proxy \in BOOLEAN /\ s.smtp_timeout \in BOOLEAN
      /\ s.override \in MethodType \union {Default}
      /\ r.proxy \in BOOLEAN /\ r.smtp_timeout \in BOOLEAN /\ r.bulk_v0 \in BOOLEAN
  BY <1>1 DEF SettingsType, RequestType
<1> DEFINE Good(m) == /\ m.method \in {"smtp", "headless", "api"}
                      /\ m.retries \in Nat /\ m.smtp_timeout \in BOOLEAN
<1>3. \A proxy : \A t \in BOOLEAN : Good(Smtp(proxy, 1, t))
  BY DEF Smtp
<1>4. Good(Headless) /\ Good(Api)
  BY DEF Headless, Api
<1>5. \A proxy : \A t \in BOOLEAN : Good(SameForAll(p, proxy, t))
  BY <1>3, <1>4 DEF SameForAll
<1>6. s.override # Default => Good(s.override)
  BY <1>2 DEF MethodType
<1>7. Good(get_verif_method(s, p))
  BY <1>2, <1>5, <1>6 DEF get_verif_method
<1>8. \A t \in BOOLEAN : r.method # "default" => Good(RequestedMethod(r, t))
  BY <1>3, <1>4 DEF RequestedMethod
<1>9. Good(to_check_email_input(s, r, p))
  BY <1>2, <1>5, <1>7, <1>8 DEF to_check_email_input
<1>10. Good(input0)
  BY <1>5, <1>9 DEF TaskInput
<1> HIDE DEF Good
<1>11. Conf(s, r, p, skip).asked \in BOOLEAN
  BY <1>2 DEF Conf
<1> QED
  BY <1>2, <1>10, <1>11 DEF Conf, ConfType, Good

\* The proxy of the request, of an accepted override, or of the file is one that
\* the check finds under its id.
LEMMA ConfProxy ==
  ASSUME NEW s \in Settings, NEW r \in Requests, NEW p \in Providers, NEW skip \in BOOLEAN,
         r.method \in {"default", "smtp", "headless", "api"}, validate_proxies(s, p),
         p \notin {"hotmailb2c", "yahoo"} \/ r.bulk_v0 => r.method = "default",
         Conf(s, r, p, skip).method = "smtp",
         \/ Conf(s, r, p, skip).asked
         \/ Conf(s, r, p, skip).proxy # "none" /\ p \notin {"mimecast", "proofpoint"}
  PROVE  Conf(s, r, p, skip).proxy = "known"
<1>1. s \in SettingsType /\ r \in RequestType
  OBVIOUS
<1>2. /\ s.proxy \in BOOLEAN /\ s.override \in MethodType \union {Default}
      /\ r.proxy \in BOOLEAN /\ r.bulk_v0 \in BOOLEAN
  BY <1>1 DEF SettingsType, RequestType
<1> DEFINE input0 == IF r.bulk_v0 THEN TaskInput(r, p) ELSE to_check_email_input(s, r, p)
           proxies0 == IF r.proxy \/ r.bulk_v0 THEN WithDefault(r.proxy, {})
                       ELSE WithDefault(s.proxy, s.proxies)
           byDefault == r.method = "default" /\ (p = "everything_else" \/ s.override = Default)
           c == Conf(s, r, p, skip)
<1>3. /\ c.method = input0.method
      /\ c.proxy = IF input0.proxy = "none" THEN "none"
                   ELSE IF input0.proxy \in proxies0 THEN "known" ELSE "unknown"
      /\ c.asked = (r.proxy \/ (s.proxy /\ byDefault /\ ~r.bulk_v0))
  BY DEF Conf
<1>4. \A q \in BOOLEAN, t \in BOOLEAN :
        SameForAll(p, q, t).method = "smtp" =>
          SameForAll(p, q, t).proxy = IF q THEN "default" ELSE "none"
  BY DEF SameForAll, Headless, Smtp
<1>5. \A t \in BOOLEAN :
        r.method # "default" /\ RequestedMethod(r, t).method = "smtp" =>
          RequestedMethod(r, t).proxy = IF r.proxy THEN "default" ELSE "none"
  BY DEF RequestedMethod, Smtp, Headless, Api
<1>6. s.smtp_timeout \in BOOLEAN /\ r.smtp_timeout \in BOOLEAN
  BY <1>1 DEF SettingsType, RequestType
<1> HIDE DEF c
<1>7. c.method = "smtp" /\ (c.asked \/ (c.proxy # "none" /\ p \notin {"mimecast", "proofpoint"}))
  BY DEF c
<1>8. CASE r.proxy
  <2>1. "default" \in proxies0
    BY <1>8 DEF WithDefault
  <2>2. input0.proxy = "default"
    BY <1>3, <1>4, <1>5, <1>6, <1>7, <1>8 DEF TaskInput, to_check_email_input
  <2> QED
    BY <1>3, <2>1, <2>2 DEF c
<1>9. CASE ~r.proxy /\ (r.bulk_v0 \/ r.method # "default")
  <2>1. input0.proxy = "none"
    BY <1>2, <1>3, <1>4, <1>5, <1>6, <1>7, <1>9 DEF TaskInput, to_check_email_input
  <2> QED
    BY <1>2, <1>3, <1>7, <1>9, <2>1
<1>10. CASE ~r.proxy /\ ~r.bulk_v0 /\ r.method = "default"
  <2>1. input0 = get_verif_method(s, p) /\ proxies0 = WithDefault(s.proxy, s.proxies)
    BY <1>10 DEF to_check_email_input
  <2>2. CASE c.asked
    <3>1. s.proxy /\ byDefault
      BY <1>3, <1>10, <2>2
    <3>2. input0.proxy = "default"
      BY <1>3, <1>4, <1>6, <1>7, <2>1, <3>1 DEF get_verif_method
    <3> QED
      BY <1>3, <2>1, <3>1, <3>2 DEF c, WithDefault
  <2>3. CASE c.proxy # "none" /\ p \notin {"mimecast", "proofpoint"}
    <3>1. get_verif_method(s, p).proxy \in {"none"} \union WithDefault(s.proxy, s.proxies)
      BY <2>3 DEF validate_proxies
    <3> QED
      BY <1>3, <2>1, <2>3, <3>1 DEF c
  <2> QED
    BY <1>7, <2>2, <2>3
<1> QED
  BY <1>2, <1>8, <1>9, <1>10

LEMMA InvInit == Init => IInv
<1> SUFFICES ASSUME Init PROVE IInv
  OBVIOUS
<1>1. PICK p \in Providers, skip \in BOOLEAN, s \in Settings, r \in Requests :
        /\ {s.override.method, r.method} \subseteq {"default"} \union Methods(p)
        /\ p \notin {"hotmailb2c", "yahoo"} \/ r.bulk_v0 => r.method = "default"
        /\ validate_proxies(s, p)
        /\ conf = Conf(s, r, p, skip)
  BY DEF Init
<1>2. r.method \in {"default", "smtp", "headless", "api"}
  BY DEF RequestType
<1>3. conf \in ConfType /\ conf.provider = p
  BY <1>1, <1>2, ConfTypes DEF Conf
<1>4. ConfInv
  BY <1>1, <1>2, <1>3, ConfProxy DEF ConfInv, NoDirectConnection, ProxyIsDue, Init
<1>5. TypeOK
  <2>1. conf.retries \in Nat
    BY <1>3 DEF ConfType
  <2>2. count \in 0..conf.retries
    BY <2>1 DEF Init
  <2> QED
    BY <1>3, <2>2 DEF Init, TypeOK, Steps, RefusalFates
<1>6. AttemptInv /\ ConnectInv /\ RefusedInv
  BY DEF Init, AttemptInv, ConnectInv, RefusedInv, InAttempt
<1>7. VerdictInv
  <2>1. ~Takes(NoReply)
    BY DEF Takes
  <2> QED
    BY <2>1 DEF Init, VerdictInv
<1>8. ResultInv
  BY DEF Init, ResultInv, UnknownIsExhausted, VerdictIsBacked, BySmtp
<1> QED
  BY <1>4, <1>5, <1>6, <1>7, <1>8 DEF IInv

-----------------------------------------------------------------------------
(* Failures of an attempt and results.                                     *)

\* The parts of the type invariant, by what the steps change together.
TypeAttempt ==
  /\ pc \in Steps /\ count \in 0..conf.retries /\ attempts \in Nat
  /\ again \in BOOLEAN /\ catch_all \in BOOLEAN
  /\ verdict \in {{}} \union {{d} : d \in Deliverables}
  /\ failure \in Errors \union {NoResult}
  /\ probed \in Replies \union {NoReply} /\ answered \in Replies \union {NoReply}
TypeOutcome ==
  /\ result \in Results \union {NoResult}
  /\ output \in {"pending", "safe", "risky", "invalid", "unknown"}
TypeHistory ==
  /\ email \in Emails /\ conf \in ConfType
  /\ connections \in Nat /\ direct \in BOOLEAN /\ refused \in RefusalFates

LEMMA TypeParts == TypeOK <=> TypeAttempt /\ TypeOutcome /\ TypeHistory
  BY DEF TypeOK, TypeAttempt, TypeOutcome, TypeHistory

LEMMA FailureKept ==
  ASSUME IInv, NEW e \in Errors, e.type \notin {"HeadlessError", "YahooError"},
         pc \in InAttempt, Fail(e), UNCHANGED input
  PROVE  /\ TypeAttempt' /\ TypeOutcome' /\ AttemptInv' /\ VerdictInv' /\ ResultInv'
         /\ \/ pc' = "connect" /\ attempts' = attempts + 1 /\ again' = FALSE
            \/ pc' = "done" /\ attempts' = attempts /\ again' = again
         /\ get_description(e) # "None" => pc' = "done"
<1> USE DEF IInv
<1>a. /\ conf.retries \in Nat /\ count \in 0..conf.retries /\ attempts \in Nat
      /\ conf' = conf /\ conf.method = "smtp" /\ Tries
  BY DEF TypeOK, ConfType, input, AttemptInv
<1>b. TypeAttempt /\ TypeOutcome
  BY TypeParts
<1>c. result = NoResult
  BY DEF ResultInv, InAttempt
<1>1. CASE Retryable(e) /\ count > 1
  <2>1. /\ pc' = "connect" /\ count' = count - 1 /\ attempts' = attempts + 1
        /\ again' = FALSE /\ catch_all' = FALSE /\ verdict' = {} /\ failure' = NoResult
        /\ probed' = NoReply /\ answered' = NoReply /\ UNCHANGED <<result, output>>
    BY <1>1 DEF Fail, NextAttempt, outcome
  <2>2. TypeAttempt' /\ TypeOutcome'
    <3>1. count' \in 0..conf'.retries /\ attempts' \in Nat
      BY <1>a, <1>1, <2>1
    <3>2. TypeOutcome'
      BY <1>b, <2>1 DEF TypeOutcome
    <3>3. pc' \in Steps
      BY <2>1 DEF Steps, InAttempt
    <3> QED
      BY <2>1, <3>1, <3>2, <3>3 DEF TypeAttempt
  <2>3. AttemptInv'
    <3>1. Tries'
      BY <1>a, <1>1, <2>1 DEF Tries
    <3> QED
      BY <1>a, <2>1, <3>1 DEF AttemptInv
  <2>4. VerdictInv'
    BY <2>1 DEF VerdictInv, Takes
  <2>5. ResultInv'
    BY <1>c, <2>1 DEF ResultInv, UnknownIsExhausted, VerdictIsBacked, BySmtp
  <2> QED
    BY <1>1, <2>1, <2>2, <2>3, <2>4, <2>5 DEF Retryable
<1>2. CASE ~ (Retryable(e) /\ count > 1)
  <2>1. /\ pc' = "done" /\ result' = Err(e) /\ output' = calculate_reachable(check_misc(email), Err(e))
        /\ UNCHANGED <<count, again, catch_all, verdict, failure, probed, answered, attempts>>
    BY <1>2 DEF Fail, Return, attempt
  <2>2. result' \in Results /\ result'.ok = FALSE /\ result'.error = e
    BY <2>1 DEF Err, Results
  <2>3. TypeAttempt' /\ TypeOutcome'
    BY <1>a, <1>b, <2>1, <2>2, ReachableType DEF TypeAttempt, TypeOutcome, Steps
  <2>4. attempts <= AtLeastOne(conf.retries) /\ (get_description(e) = "None" => attempts = AtLeastOne(conf.retries))
    BY <1>a, <1>2 DEF Tries, AtLeastOne, Retryable
  <2>5. AttemptInv'
    BY <1>a, <2>1, <2>4 DEF AttemptInv, InAttempt, AtLeastOne
  <2>6. VerdictInv'
    BY <2>1 DEF VerdictInv, Takes
  <2>7. ResultInv'
    BY <1>a, <2>1, <2>2, <2>4 DEF ResultInv, UnknownIsExhausted, VerdictIsBacked, AtLeastOne
  <2> QED
    BY <2>1, <2>3, <2>5, <2>6, <2>7
<1> QED
  BY <1>1, <1>2

LEMMA ReturnKept ==
  ASSUME IInv, NEW res \in Results, Return(res), UNCHANGED <<input, count, attempt, attempts>>
  PROVE  TypeAttempt' /\ TypeOutcome' /\ VerdictInv' /\ (conf.method # "smtp" => ResultInv')
<1>1. TypeAttempt /\ TypeOutcome /\ VerdictInv
  BY TypeParts DEF IInv
<1>2. /\ pc' = "done" /\ result' = res /\ output' = calculate_reachable(check_misc(email), res)
      /\ UNCHANGED <<conf, count, again, catch_all, verdict, failure, probed, answered, attempts>>
  BY DEF Return, input, attempt
<1>3. TypeAttempt' /\ TypeOutcome'
  BY <1>1, <1>2, ReachableType DEF TypeAttempt, TypeOutcome, Steps
<1>4. VerdictInv'
  BY <1>1, <1>2 DEF VerdictInv, Takes
<1>5. conf.method # "smtp" => ResultInv'
  BY <1>2 DEF ResultInv, UnknownIsExhausted, VerdictIsBacked, BySmtp
<1> QED
  BY <1>3, <1>4, <1>5

\* An attempt that ends well concludes what the server has said in it.
LEMMA QuitBacked ==
  ASSUME IInv, pc = "quit", NEW d \in verdict, Return(Ok(d, catch_all)),
         UNCHANGED <<input, count, attempt, attempts>>
  PROVE  ResultInv'
<1> DEFINE res == Ok(d, catch_all)
<1>a. VerdictInv /\ TypeOK
  BY DEF IInv
<1>1. /\ pc' = "done" /\ result' = res /\ output' = calculate_reachable(check_misc(email), res)
      /\ UNCHANGED <<conf, catch_all, probed, answered>>
  BY DEF Return, input, attempt
<1>2. /\ res.ok = TRUE /\ res.is_catch_all = catch_all /\ res.smtp = d
  BY DEF Ok
<1>3. catch_all <=> Takes(probed)
  BY <1>a DEF VerdictInv
<1>4. IF catch_all THEN d = Deliverability(FALSE, TRUE, FALSE)
                   ELSE answered \in Replies /\ d \in Verdict(answered)
  BY <1>a DEF VerdictInv
<1> HIDE DEF res
<1>5. output' = "safe" => ~catch_all /\ ~d.has_full_inbox /\ d.is_deliverable
  BY <1>1, <1>2 DEF calculate_reachable
<1>6. output' = "invalid" => ~catch_all /\ ~d.has_full_inbox /\ (~d.is_deliverable \/ d.is_disabled)
  BY <1>1, <1>2 DEF calculate_reachable
<1>7. output' = "safe" => Takes(answered) /\ ~Takes(probed)
  BY <1>3, <1>4, <1>5, VerdictTakes
<1>8. output' = "invalid" => answered \in Refusals /\ FromServer(answered) /\ NoMailbox(answered)
  BY <1>4, <1>6, VerdictNames
<1>9. VerdictIsBacked'
  BY <1>1, <1>2, <1>3, <1>7, <1>8 DEF VerdictIsBacked, Takes, FromServer, NoMailbox
<1> QED
  BY <1>1, <1>2, <1>9 DEF ResultInv, UnknownIsExhausted

-----------------------------------------------------------------------------
(* The steps.                                                              *)

LEMMA NoResultYet ==
  ASSUME result' = NoResult
  PROVE  ResultInv'
  BY DEF ResultInv, UnknownIsExhausted, VerdictIsBacked, BySmtp

LEMMA FateType ==
  ASSUME TypeHistory, NEW r, NEW fate \in {"error", "ignored", "verdict", "overtaken"},
         RefusedAs(fate, r) \/ UNCHANGED refused
  PROVE  refused' \in RefusalFates
  BY DEF TypeHistory, RefusedAs, RefusalFates

\* The error of a refusal holds the reply.
LEMMA RefusalReply ==
  ASSUME NEW e \in Errors, e.type = "AsyncSmtpError", get_description(e) # "None"
  PROVE  Refuses(e.reply)
<1>1. e.reply \in Refusals /\ AsyncSmtpError(e.reply) = e
  BY DEF Errors, AsyncSmtpError
<1>2. e.reply # Accepted
  BY <1>1 DEF Accepted, ReplyType
<1> QED
  BY <1>1, <1>2 DEF Refuses

\* Before the end no refusal is the error, unless the QUIT of try_smtp is under way.
LEMMA NotRefused ==
  ASSUME IInv, pc \notin {"abort", "done"}
  PROVE  refused # "error"
  BY DEF IInv, RefusedInv

\* check_email around the SMTP check, and the choice of the method.
LEMMA AroundNext ==
  ASSUME IInv, CheckSyntax \/ CheckMx \/ Dispatch
  PROVE  IInv'
<1>a. pc \in {"syntax", "mx", "dispatch"} /\ result = NoResult /\ attempts = 0 /\ conf.retries \in Nat
  BY DEF IInv, TypeOK, ConfType, AttemptInv, ResultInv, CheckSyntax, CheckMx, Dispatch
<1>b. UNCHANGED <<email, conf, again, catch_all, verdict, failure, probed, answered, connections, direct, refused>>
  BY DEF CheckSyntax, CheckMx, Dispatch, input, attempt
<1>c. /\ result' = result /\ output' \in {output, "invalid", "unknown"}
      /\ \/ pc' \in {"mx", "dispatch", "done"} /\ count' = count /\ attempts' = 0
         \/ /\ pc' = IF conf.method = "smtp" THEN "connect" ELSE conf.method
            /\ count' = IF conf.method = "smtp" THEN conf.retries ELSE 0
            /\ attempts' = 1
  BY <1>a DEF CheckSyntax, CheckMx, Dispatch, ReturnEarly, outcome
<1>d. conf.method \in {"smtp", "headless", "api"}
  BY DEF IInv, TypeOK, ConfType
<1>1. TypeOK'
  <2>1. count' \in 0..conf.retries /\ attempts' \in Nat /\ pc' \in Steps
    BY <1>a, <1>c, <1>d DEF IInv, TypeOK, Steps, InAttempt
  <2> QED
    BY <1>a, <1>b, <1>c, <2>1 DEF IInv, TypeOK
<1>2. ConfInv'
  BY <1>b DEF IInv, ConfInv, NoDirectConnection, ProxyIsDue
<1>3. AttemptInv'
  BY <1>a, <1>b, <1>c, <1>d DEF AttemptInv, Tries, InAttempt, AtLeastOne
<1>4. ConnectInv'
  <2>1. connections = 0
    BY <1>a DEF IInv, ConnectInv, TypeOK
  <2>2. again = FALSE \/ again = TRUE
    BY DEF IInv, TypeOK
  <2> QED
    BY <1>b, <1>c, <1>d, <2>1, <2>2 DEF ConnectInv, InAttempt
<1>5. VerdictInv'
  BY <1>a, <1>b, <1>c, <1>d DEF IInv, VerdictInv, Takes
<1>6. ResultInv'
  BY <1>a, <1>c, NoResultYet
<1>7. RefusedInv'
  BY <1>a, <1>b, NotRefused DEF RefusedInv
<1> QED
  BY <1>1, <1>2, <1>3, <1>4, <1>5, <1>6, <1>7 DEF IInv

\* The browser and the API.
LEMMA BrowserNext ==
  ASSUME IInv, HeadlessAnswer \/ HeadlessFails \/ YahooApi
  PROVE  IInv'
<1>a. /\ pc \in {"headless", "api"} /\ conf.method = pc /\ attempts \in 1..3
      /\ UNCHANGED <<email, conf, connections, direct, refused>>
      /\ UNCHANGED <<count, again, catch_all, verdict, failure, probed, answered>>
  BY DEF IInv, AttemptInv, HeadlessAnswer, HeadlessFails, YahooApi, input, attempt
<1>b. TypeAttempt /\ TypeOutcome /\ TypeHistory
  BY TypeParts DEF IInv
<1>1. ConfInv' /\ RefusedInv'
  BY <1>a, NotRefused DEF IInv, ConfInv, NoDirectConnection, ProxyIsDue, RefusedInv
<1>2. TypeHistory'
  BY <1>a, <1>b DEF TypeHistory
<1>3. CASE \E res \in Results : Return(res) /\ attempts' = attempts
  <2>1. PICK res \in Results : Return(res) /\ attempts' = attempts
    BY <1>3
  <2>2. TypeAttempt' /\ TypeOutcome' /\ VerdictInv' /\ ResultInv'
    BY <1>a, <2>1, ReturnKept DEF input, attempt
  <2>3. AttemptInv' /\ ConnectInv'
    BY <1>a, <2>1 DEF IInv, AttemptInv, ConnectInv, Return, InAttempt
  <2> QED
    BY <1>1, <1>2, <2>2, <2>3, TypeParts DEF IInv, TypeOK, TypeAttempt, TypeOutcome, TypeHistory
<1>4. CASE /\ pc = "headless" /\ attempts < HeadlessAttempts /\ attempts' = attempts + 1
           /\ UNCHANGED <<pc, result, output>>
  <2>1. attempts' \in 1..3
    BY <1>a, <1>4 DEF HeadlessAttempts
  <2>2. TypeAttempt' /\ TypeOutcome'
    BY <1>a, <1>b, <1>4, <2>1 DEF TypeAttempt, TypeOutcome
  <2>3. AttemptInv'
    BY <1>a, <1>4, <2>1 DEF AttemptInv, InAttempt
  <2>4. ConnectInv'
    BY <1>a, <1>b, <1>4 DEF IInv, ConnectInv, InAttempt, TypeHistory
  <2>5. VerdictInv'
    BY <1>a, <1>4 DEF IInv, VerdictInv, Takes
  <2>6. ResultInv'
    BY <1>a, <1>4, NoResultYet DEF IInv, ResultInv
  <2> QED
    BY <1>1, <1>2, <2>2, <2>3, <2>4, <2>5, <2>6
    DEF IInv, TypeOK, TypeAttempt, TypeOutcome, TypeHistory
<1>5. \/ \E res \in Results : Return(res) /\ attempts' = attempts
      \/ /\ pc = "headless" /\ attempts < HeadlessAttempts /\ attempts' = attempts + 1
         /\ UNCHANGED <<pc, result, output>>
  <2>1. \A f, d, a \in BOOLEAN : Ok(Deliverability(f, d, a), FALSE) \in Results
    BY DEF Ok, Deliverability, Deliverables, Results
  <2>2. \A type \in {"HeadlessError", "YahooError"} : Err(Error(type)) \in Results
    BY DEF Err, Error, Errors, Results
  <2>3. CASE HeadlessAnswer
    BY <2>1, <2>3 DEF HeadlessAnswer
  <2>4. CASE HeadlessFails
    BY <2>2, <2>4 DEF HeadlessFails, outcome
  <2>5. CASE YahooApi
    BY <2>1, <2>2, <2>5 DEF YahooApi
  <2> QED
    BY <2>3, <2>4, <2>5
<1> QED
  BY <1>3, <1>4, <1>5

\* A step of an attempt that fails with the error e.
LEMMA FailNext ==
  ASSUME IInv, pc \in InAttempt, NEW e \in Errors, e.type \notin {"HeadlessError", "YahooError"},
         Fail(e), UNCHANGED input, TypeHistory', ConfInv',
         connections' \in {connections, connections + (IF pc = "connect" THEN 1 ELSE 0)},
         refused' = "error" => get_description(e) # "None"
  PROVE  IInv'
<1>1. /\ TypeAttempt' /\ TypeOutcome' /\ AttemptInv' /\ VerdictInv' /\ ResultInv'
      /\ \/ pc' = "connect" /\ attempts' = attempts + 1 /\ again' = FALSE
         \/ pc' = "done" /\ attempts' = attempts /\ again' = again
      /\ get_description(e) # "None" => pc' = "done"
  BY FailureKept
<1>2. ConnectInv'
  <2>1. connections' <= 2 * attempts
    BY DEF IInv, ConnectInv, TypeOK
  <2> QED
    BY <1>1, <2>1 DEF IInv, ConnectInv, TypeOK, InAttempt
<1>3. RefusedInv'
  BY <1>1 DEF RefusedInv, input
<1> QED
  BY <1>1, <1>2, <1>3, TypeParts DEF IInv, TypeOK, TypeAttempt, TypeOutcome, TypeHistory

\* A step of an attempt that goes on, without a result or a new attempt.
LEMMA GoesOn ==
  ASSUME IInv, pc \in InAttempt, pc' \in InAttempt, TypeOK', ConfInv', VerdictInv', RefusedInv',
         UNCHANGED <<input, count, attempts, outcome>>,
         connections' = connections + (IF pc = "connect" THEN 1 ELSE 0),
         \/ again' = again /\ pc' # "connect" /\ (pc' = "hangup" => ~again)
         \/ pc = "hangup" /\ pc' = "connect" /\ again' = TRUE
  PROVE  IInv'
<1>1. AttemptInv'
  BY DEF IInv, AttemptInv, Tries, InAttempt, input
<1>2. ConnectInv'
  BY DEF IInv, ConnectInv, TypeOK, InAttempt
<1>3. ResultInv'
  BY NoResultYet DEF IInv, ResultInv, InAttempt, outcome
<1> QED
  BY <1>1, <1>2, <1>3 DEF IInv

LEMMA ConnectNext ==
  ASSUME IInv, Connect
  PROVE  IInv'
<1>a. /\ pc = "connect" /\ pc \in InAttempt /\ UNCHANGED <<email, conf>>
      /\ connections' = connections + 1 /\ direct' = (direct \/ ~get_proxy(conf))
      /\ conf.method = "smtp" /\ UNCHANGED input
  BY DEF Connect, InAttempt, input, IInv, AttemptInv
<1>b. TypeAttempt /\ TypeOutcome /\ TypeHistory
  BY TypeParts DEF IInv
<1>c. connections' \in Nat /\ direct' \in BOOLEAN
  BY <1>a, <1>b DEF TypeHistory
<1>d. ConfInv'
  BY <1>a DEF IInv, ConfInv, NoDirectConnection, ProxyIsDue, get_proxy
<1>e. refused # "error"
  BY <1>a, NotRefused
<1>1. CASE pc' = "mail" /\ UNCHANGED <<count, attempt, outcome, attempts, refused>>
  <2>1. TypeOK'
    BY <1>a, <1>b, <1>c, <1>1
    DEF TypeOK, TypeAttempt, TypeOutcome, TypeHistory, attempt, outcome, Steps, InAttempt
  <2>2. VerdictInv'
    BY <1>a, <1>1 DEF IInv, VerdictInv, Takes, attempt
  <2>3. RefusedInv'
    BY <1>a, <1>e, <1>1 DEF RefusedInv
  <2> QED
    BY <1>a, <1>d, <1>1, <2>1, <2>2, <2>3, GoesOn DEF InAttempt, attempt
<1>2. CASE /\ Fail(Error(IF get_proxy(conf) THEN "Socks5" ELSE "IOError"))
           /\ UNCHANGED refused
  <2>1. PICK e \in Errors : e.type \notin {"HeadlessError", "YahooError"} /\ Fail(e)
    BY <1>2, ErrorsType
  <2>2. TypeHistory'
    BY <1>a, <1>b, <1>c, <1>2 DEF TypeHistory
  <2> QED
    BY <1>a, <1>d, <1>e, <1>2, <2>1, <2>2, FailNext
<1>3. ASSUME NEW r \in Refusals, Fail(AsyncSmtpError(r)), RefusedAs("error", r)
      PROVE  IInv'
  <2> DEFINE e == AsyncSmtpError(r)
  <2>1. /\ e \in Errors /\ e.type = "AsyncSmtpError"
        /\ Refuses(r) => get_description(e) # "None"
    BY ErrorsType
  <2>2. refused' \in RefusalFates
    BY <1>3, <1>b, FateType
  <2>3. TypeHistory'
    BY <1>a, <1>b, <1>c, <2>2 DEF TypeHistory
  <2>4. Fail(e) /\ (refused' = "error" => get_description(e) # "None")
    BY <1>e, <1>3, <2>1 DEF RefusedAs
  <2> HIDE DEF e
  <2> QED
    BY <1>a, <1>d, <2>1, <2>3, <2>4, FailNext
<1> QED
  BY <1>1, <1>2, <1>3 DEF Connect

LEMMA MailNext ==
  ASSUME IInv, Mail
  PROVE  IInv'
<1>a. /\ pc = "mail" /\ pc \in InAttempt
      /\ UNCHANGED <<email, conf, count, again, catch_all, verdict, probed, answered,
                     result, output, attempts, connections, direct>>
  BY DEF Mail, InAttempt, input, outcome
<1>b. TypeAttempt /\ TypeOutcome /\ TypeHistory
  BY TypeParts DEF IInv
<1>c. ConfInv' /\ refused # "error" /\ ~catch_all
  BY <1>a, NotRefused DEF IInv, ConfInv, NoDirectConnection, ProxyIsDue, VerdictInv
<1>d. \/ pc' \in {"rcpt", "probe"} /\ UNCHANGED <<failure, refused>>
      \/ \E r \in Refusals : /\ pc' = "abort" /\ failure' = AsyncSmtpError(r)
                              /\ RefusedAs("error", r)
  BY DEF Mail, Replies
<1>e. connections' = connections + (IF pc = "connect" THEN 1 ELSE 0)
  BY <1>a, <1>b DEF TypeHistory
<1>1. CASE pc' \in {"rcpt", "probe"} /\ UNCHANGED <<failure, refused>>
  <2>1. TypeOK'
    BY <1>a, <1>b, <1>1 DEF TypeOK, TypeAttempt, TypeOutcome, TypeHistory, Steps, InAttempt
  <2>2. VerdictInv'
    BY <1>a, <1>1 DEF IInv, VerdictInv, Takes
  <2>3. RefusedInv'
    BY <1>a, <1>c, <1>1 DEF RefusedInv
  <2> QED
    BY <1>a, <1>c, <1>e, <1>1, <2>1, <2>2, <2>3, GoesOn DEF InAttempt, input, outcome
<1>2. ASSUME NEW r \in Refusals, pc' = "abort", failure' = AsyncSmtpError(r),
             RefusedAs("error", r)
      PROVE  IInv'
  <2>1. /\ failure' \in Errors /\ failure'.type = "AsyncSmtpError"
        /\ Refuses(r) => get_description(failure') # "None"
    BY <1>2, ErrorsType
  <2>2. refused' \in RefusalFates
    BY <1>2, <1>b, FateType
  <2>3. TypeOK'
    BY <1>a, <1>b, <1>2, <2>1, <2>2 DEF TypeOK, TypeAttempt, TypeOutcome, TypeHistory, Steps, InAttempt
  <2>4. VerdictInv'
    BY <1>a, <1>2, <1>c, <2>1 DEF IInv, VerdictInv, Takes
  <2>5. RefusedInv'
    BY <1>a, <1>c, <1>2, <2>1 DEF RefusedInv, RefusedAs
  <2> QED
    BY <1>a, <1>c, <1>e, <1>2, <2>3, <2>4, <2>5, GoesOn DEF InAttempt, input, outcome
<1> QED
  BY <1>d, <1>1, <1>2

LEMMA AbortNext ==
  ASSUME IInv, Abort
  PROVE  IInv'
<1>a. /\ pc = "abort" /\ pc \in InAttempt /\ Fail(failure)
      /\ UNCHANGED <<email, conf, connections, direct, refused>> /\ UNCHANGED input
  BY DEF Abort, InAttempt, input
<1>1. failure \in Errors /\ failure.type = "AsyncSmtpError"
  BY <1>a DEF IInv, VerdictInv
<1>2. refused' = "error" => get_description(failure) # "None"
  BY <1>a DEF IInv, RefusedInv
<1>3. TypeHistory' /\ ConfInv'
  BY <1>a, TypeParts DEF IInv, TypeHistory, ConfInv, NoDirectConnection, ProxyIsDue
<1>4. connections' = connections + (IF pc = "connect" THEN 1 ELSE 0)
  BY <1>a DEF IInv, TypeOK
<1> QED
  BY <1>a, <1>1, <1>2, <1>3, <1>4, FailNext

LEMMA ProbeNext ==
  ASSUME IInv, Probe
  PROVE  IInv'
<1>1. PICK r \in Replies :
        /\ probed' = r
        /\ catch_all' = \E d \in Verdict(r) : d.is_deliverable
        /\ verdict' = IF catch_all' THEN {Deliverability(FALSE, TRUE, FALSE)} ELSE {}
        /\ pc' = IF catch_all' THEN "quit" ELSE "rcpt"
        /\ RefusedAs("ignored", r)
  BY DEF Probe
<1>a. /\ pc = "probe" /\ pc \in InAttempt
      /\ UNCHANGED <<email, conf, count, again, failure, answered, result, output, attempts,
                     connections, direct>>
  BY DEF Probe, InAttempt, input, outcome
<1>b. TypeAttempt /\ TypeOutcome /\ TypeHistory
  BY TypeParts DEF IInv
<1>c. ConfInv' /\ refused # "error"
  BY <1>a, NotRefused DEF IInv, ConfInv, NoDirectConnection, ProxyIsDue
<1>2. catch_all' \in BOOLEAN /\ (catch_all' <=> Takes(r))
  BY <1>1, VerdictTakes
<1>3. verdict' \in {{}} \union {{d} : d \in Deliverables}
  BY <1>1 DEF Deliverability, Deliverables
<1>d. refused' \in RefusalFates /\ refused' # "error"
  BY <1>b, <1>c, <1>1, FateType DEF RefusedAs
<1>4. TypeOK'
  BY <1>a, <1>b, <1>d, <1>1, <1>2, <1>3 DEF TypeOK, TypeAttempt, TypeOutcome, TypeHistory, Steps, InAttempt
<1>5. VerdictInv'
  <2>1. catch_all' <=> Takes(probed)'
    BY <1>1, <1>2 DEF Takes
  <2> QED
    BY <1>1, <2>1 DEF VerdictInv
<1>6. RefusedInv'
  BY <1>d DEF RefusedInv
<1>7. connections' = connections + (IF pc = "connect" THEN 1 ELSE 0)
  BY <1>a, <1>b DEF TypeHistory
<1> QED
  BY <1>a, <1>c, <1>1, <1>4, <1>5, <1>6, <1>7, GoesOn DEF InAttempt, input, outcome

LEMMA RcptNext ==
  ASSUME IInv, Rcpt
  PROVE  IInv'
<1>a. /\ pc = "rcpt" /\ pc \in InAttempt /\ UNCHANGED <<email, conf, connections, direct>>
      /\ UNCHANGED input
  BY DEF Rcpt, InAttempt, input
<1>b. TypeAttempt /\ TypeOutcome /\ TypeHistory
  BY TypeParts DEF IInv
<1>c. ConfInv' /\ refused # "error" /\ catch_all = FALSE
  BY <1>a, NotRefused DEF IInv, ConfInv, NoDirectConnection, ProxyIsDue, VerdictInv, TypeOK
<1>d. connections' = connections + (IF pc = "connect" THEN 1 ELSE 0)
  BY <1>a, <1>b DEF TypeHistory
<1>1. ASSUME NEW r \in Replies, Verdict(r) # {}, verdict' = Verdict(r), answered' = r, pc' = "quit",
             UNCHANGED <<count, again, catch_all, failure, probed, outcome, attempts>>,
             RefusedAs("verdict", r)
      PROVE  IInv'
  <2>a. refused' \in RefusalFates /\ refused' # "error"
    BY <1>b, <1>c, <1>1, FateType DEF RefusedAs
  <2>1. TypeOK'
    BY <1>a, <1>b, <1>1, <2>a, VerdictType
    DEF TypeOK, TypeAttempt, TypeOutcome, TypeHistory, outcome, Steps, InAttempt
  <2>2. VerdictInv'
    BY <1>a, <1>c, <1>1 DEF IInv, VerdictInv, Takes
  <2>3. RefusedInv'
    BY <2>a DEF RefusedInv
  <2> QED
    BY <1>a, <1>c, <1>d, <1>1, <2>1, <2>2, <2>3, GoesOn DEF InAttempt
<1>2. ASSUME NEW r \in Replies, ~again, answered' = r, pc' = "hangup",
             UNCHANGED <<count, again, catch_all, verdict, failure, probed, outcome, attempts, refused>>
      PROVE  IInv'
  <2>1. TypeOK'
    BY <1>a, <1>b, <1>2 DEF TypeOK, TypeAttempt, TypeOutcome, TypeHistory, outcome, Steps, InAttempt
  <2>2. VerdictInv'
    BY <1>a, <1>c, <1>2 DEF IInv, VerdictInv, Takes
  <2>3. RefusedInv'
    BY <1>a, <1>c, <1>2 DEF RefusedInv
  <2> QED
    BY <1>a, <1>c, <1>d, <1>2, <2>1, <2>2, <2>3, GoesOn DEF InAttempt
<1>3. ASSUME NEW r \in Replies, Verdict(r) = {}, Fail(AsyncSmtpError(r)),
             RefusedAs("error", r)
      PROVE  IInv'
  <2> DEFINE e == AsyncSmtpError(r)
  <2>1. r \in Refusals
    BY <1>3 DEF Replies, Verdict
  <2>2. /\ e \in Errors /\ e.type = "AsyncSmtpError"
        /\ Refuses(r) => get_description(e) # "None"
    BY <2>1, ErrorsType
  <2>3. refused' \in RefusalFates
    BY <1>3, <1>b, FateType
  <2>4. TypeHistory'
    BY <1>a, <1>b, <2>3 DEF TypeHistory
  <2>5. Fail(e) /\ (refused' = "error" => get_description(e) # "None")
    BY <1>c, <1>3, <2>2 DEF RefusedAs
  <2> HIDE DEF e
  <2> QED
    BY <1>a, <1>c, <1>d, <2>2, <2>4, <2>5, FailNext
<1> QED
  BY <1>1, <1>2, <1>3 DEF Rcpt

LEMMA HangupNext ==
  ASSUME IInv, Hangup
  PROVE  IInv'
<1>a. /\ pc = "hangup" /\ pc' = "connect" /\ again' = TRUE
      /\ UNCHANGED <<email, conf, count, catch_all, verdict, failure, probed, answered,
                     result, output, attempts, connections, direct, refused>>
  BY DEF Hangup, input, outcome
<1>1. TypeOK'
  BY <1>a DEF IInv, TypeOK, Steps, InAttempt
<1>2. ConfInv' /\ VerdictInv'
  BY <1>a DEF IInv, ConfInv, NoDirectConnection, ProxyIsDue, VerdictInv, Takes
<1>3. RefusedInv'
  BY <1>a, NotRefused DEF RefusedInv
<1>4. connections' = connections + (IF pc = "connect" THEN 1 ELSE 0)
  BY <1>a DEF IInv, TypeOK
<1> QED
  BY <1>a, <1>1, <1>2, <1>3, <1>4, GoesOn DEF InAttempt, input, outcome

LEMMA QuitNext ==
  ASSUME IInv, Quit
  PROVE  IInv'
<1>a. /\ pc = "quit" /\ pc \in InAttempt /\ UNCHANGED <<email, conf, connections, direct>>
      /\ UNCHANGED input
  BY DEF Quit, InAttempt, input
<1>b. TypeAttempt /\ TypeOutcome /\ TypeHistory
  BY TypeParts DEF IInv
<1>c. ConfInv' /\ refused # "error"
  BY <1>a, <1>b, NotRefused DEF IInv, ConfInv, NoDirectConnection, ProxyIsDue
<1>d. connections' = connections + (IF pc = "connect" THEN 1 ELSE 0)
  BY <1>a, <1>b DEF TypeHistory
<1>1. ASSUME NEW d \in verdict, Return(Ok(d, catch_all)),
             UNCHANGED <<count, attempt, attempts, refused>>
      PROVE  IInv'
  <2>1. Ok(d, catch_all) \in Results
    <3>1. d \in Deliverables /\ catch_all \in BOOLEAN
      BY <1>b, <1>1 DEF TypeAttempt
    <3> QED
      BY <3>1 DEF Ok, Results
  <2>2. TypeAttempt' /\ TypeOutcome' /\ VerdictInv'
    BY <1>a, <1>1, <2>1, ReturnKept
  <2>3. ResultInv'
    BY <1>a, <1>1, QuitBacked
  <2>4. pc' = "done" /\ conf' = conf /\ attempts' = attempts /\ connections' = connections
    BY <1>a, <1>1 DEF Return
  <2>5. conf.method = "smtp" /\ Tries /\ conf.retries \in Nat /\ count \in 0..conf.retries
    BY <1>a DEF IInv, AttemptInv, TypeOK, ConfType
  <2>6. AttemptInv'
    BY <2>4, <2>5, <1>b DEF AttemptInv, Tries, InAttempt, AtLeastOne, TypeAttempt
  <2>7. ConnectInv'
    BY <2>4 DEF IInv, ConnectInv, InAttempt
  <2>8. RefusedInv'
    BY <2>4 DEF RefusedInv
  <2>9. TypeHistory'
    BY <1>a, <1>b, <1>1 DEF TypeHistory
  <2> QED
    BY <1>c, <2>9, <2>2, <2>3, <2>6, <2>7, <2>8, TypeParts DEF IInv, TypeOK, TypeAttempt, TypeOutcome, TypeHistory
<1>2. ASSUME NEW r \in Refusals, Fail(AsyncSmtpError(r)), RefusedAs("error", r)
      PROVE  IInv'
  <2> DEFINE e == AsyncSmtpError(r)
  <2>1. /\ e \in Errors /\ e.type = "AsyncSmtpError"
        /\ Refuses(r) => get_description(e) # "None"
    BY ErrorsType
  <2>2. TypeHistory'
    BY <1>a, <1>b, <1>2, FateType DEF TypeHistory
  <2>3. Fail(e) /\ (refused' = "error" => get_description(e) # "None")
    BY <1>c, <1>2, <2>1 DEF RefusedAs
  <2> HIDE DEF e
  <2> QED
    BY <1>a, <1>c, <1>d, <2>1, <2>2, <2>3, FailNext
<1> QED
  BY <1>1, <1>2 DEF Quit, Replies

\* The timeout replaces a refusal that try_smtp was about to return.
LEMMA TimeoutNext ==
  ASSUME IInv, Timeout
  PROVE  IInv'
<1>a. /\ pc \in InAttempt /\ conf.smtp_timeout /\ Fail(Error("Timeout"))
      /\ UNCHANGED <<email, conf, connections, direct>> /\ UNCHANGED input
      /\ IF pc = "abort" THEN RefusedAs("overtaken", failure.reply) ELSE UNCHANGED refused
  BY DEF Timeout, input
<1>b. TypeAttempt /\ TypeOutcome /\ TypeHistory
  BY TypeParts DEF IInv
<1>1. PICK e \in Errors : e.type = "Timeout" /\ Fail(e)
  BY <1>a, ErrorsType
<1>2. refused' \in RefusalFates
  BY <1>a, <1>b, FateType DEF TypeHistory
<1>3. TypeHistory' /\ ConfInv'
  BY <1>a, <1>b, <1>2 DEF IInv, TypeHistory, ConfInv, NoDirectConnection, ProxyIsDue
<1>4. refused' # "error"
  <2>1. CASE pc = "abort"
    <3>1. failure \in Errors /\ failure.type = "AsyncSmtpError"
      BY <2>1 DEF IInv, VerdictInv
    <3>2. get_description(failure) # "None" => Refuses(failure.reply)
      BY <3>1, RefusalReply
    <3> QED
      BY <1>a, <2>1, <3>2 DEF IInv, RefusedInv, RefusedAs
  <2>2. CASE pc # "abort"
    BY <1>a, <2>2, NotRefused DEF InAttempt
  <2> QED
    BY <2>1, <2>2
<1> QED
  BY <1>a, <1>1, <1>3, <1>4, FailNext

LEMMA InvNext ==
  ASSUME IInv, [Next]_vars
  PROVE  IInv'
<1>1. CASE UNCHANGED vars
  <2>1. TypeOK'
    BY <1>1 DEF IInv, TypeOK, vars, input, attempt, outcome
  <2>2. ConfInv' /\ AttemptInv' /\ ConnectInv' /\ VerdictInv' /\ RefusedInv'
    <3>1. ConfInv' /\ RefusedInv'
      BY <1>1 DEF IInv, ConfInv, NoDirectConnection, ProxyIsDue, RefusedInv, vars, input, attempt
    <3>2. AttemptInv' /\ ConnectInv'
      BY <1>1 DEF IInv, AttemptInv, Tries, ConnectInv, vars, input, attempt
    <3>3. VerdictInv'
      BY <1>1 DEF IInv, VerdictInv, Takes, vars, attempt
    <3> QED
      BY <3>1, <3>2, <3>3
  <2>3. ResultInv'
    BY <1>1 DEF IInv, ResultInv, UnknownIsExhausted, VerdictIsBacked, BySmtp, Takes,
                vars, input, attempt, outcome
  <2> QED
    BY <2>1, <2>2, <2>3 DEF IInv
<1> QED
  BY <1>1, AroundNext, BrowserNext, ConnectNext, MailNext, AbortNext, ProbeNext, RcptNext,
     HangupNext, QuitNext, TimeoutNext DEF Next

-----------------------------------------------------------------------------
(* The theorems.                                                           *)

\* Attempts and what is left of `retries` add up, each attempt connects once or
\* twice, a conclusion rests on what the attempt has heard, and a refusal leaves
\* nothing to do but to close the connection.
THEOREM Invariant == Spec => []IInv
  BY InvInit, InvNext, PTL DEF Spec

\* The check keeps the types of its variables, whatever the servers reply.
THEOREM TypeCorrect == Spec => []TypeOK
<1>1. IInv => TypeOK
  BY DEF IInv
<1> QED
  BY <1>1, Invariant, PTL

\* check_smtp_with_retry and create_smtp_future: at most `retries` attempts (one
\* if it is 0, three of the browser), with two connections each.
THEOREM FewConnections == Spec => []ConnectionsBound
<1>1. IInv => ConnectionsBound
  <2> SUFFICES ASSUME IInv PROVE ConnectionsBound
    OBVIOUS
  <2>1. connections <= 2 * attempts
    BY DEF IInv, ConnectInv
  <2>2. pc \in Steps /\ conf.retries \in Nat /\ count \in 0..conf.retries /\ attempts \in Nat
    BY DEF IInv, TypeOK, ConfType
  <2>3. attempts <= IF conf.method = "smtp" THEN AtLeastOne(conf.retries) ELSE 3
    BY <2>2 DEF IInv, AttemptInv, Tries, Steps, InAttempt, AtLeastOne
  <2> QED
    BY <2>1, <2>3 DEF ConnectionsBound
<1> QED
  BY <1>1, Invariant, PTL

\* check_smtp_with_retry gives up for good only when it must.
THEOREM GivesUpLate == Spec => []UnknownIsExhausted
<1>1. IInv => UnknownIsExhausted
  BY DEF IInv, ResultInv
<1> QED
  BY <1>1, Invariant, PTL

\* calculate_reachable: "safe", "invalid" and catch-all rest on what the server
\* has said of the address, or of the random one, in the attempt that ended well.
THEOREM OutputIsBacked == Spec => []VerdictIsBacked
<1>1. IInv => VerdictIsBacked
  BY DEF IInv, ResultInv
<1> QED
  BY <1>1, Invariant, PTL

\* get_proxy and the ways to choose a method: who asks for a proxy never gets a
\* connection without it.
THEOREM ProxyIsKept == Spec => []NoDirectConnection
<1>1. IInv => NoDirectConnection
  BY DEF IInv, ConfInv
<1> QED
  BY <1>1, Invariant, PTL

\* check_smtp_with_retry: a server that refuses the client is not asked again.
THEOREM RefusalIsFinal == Spec => RefusedIsFinal
<1>1. IInv /\ [Next]_vars => [refused = "error" => connections' = connections]_vars
  <2> SUFFICES ASSUME IInv, Next, refused = "error"
               PROVE  connections' = connections
    BY DEF vars
  <2>1. pc # "connect"
    BY NotRefused
  <2>2. UNCHANGED connections \/ Connect
    BY DEF Next, CheckSyntax, CheckMx, Dispatch, HeadlessAnswer, HeadlessFails, YahooApi, Mail,
           Abort, Probe, Rcpt, Hangup, Quit, Timeout
  <2> QED
    BY <2>1, <2>2 DEF Connect
<1> QED
  BY <1>1, Invariant, PTL DEF Spec, RefusedIsFinal

=============================================================================
