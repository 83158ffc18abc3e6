----------------------------- MODULE SmtpCheck -----------------------------
(***************************************************************************)
(* One verification: check_email, from the syntax of the address to the    *)
(* value of is_reachable.  Its core is the conversation with the mail      *)
(* server, which may be cut at every await: by the server, by the network  *)
(* or by the timeout of the attempt; attempts are repeated when the error  *)
(* says nothing known.                                                     *)
(*                                                                         *)
(* The mail server, the resolver, the browser and Yahoo's pages are        *)
(* external: each gives any of its answers.  A reply of the server is the  *)
(* set of phrases that the parser looks for in it.                         *)
(***************************************************************************)
EXTENDS Naturals, FiniteSets

CONSTANTS
  Emails,     \* the addresses to verify: what the checks see of each
  Settings,   \* the configurations of the backend, see SettingsType
  Requests,   \* the requests it gets, see RequestType
  Refusals,   \* the replies other than success that the server may give
  NoReply, NoResult

Providers == {"gmail", "hotmailb2b", "hotmailb2c", "mimecast", "proofpoint",
              "yahoo", "everything_else"}
Methods(provider) ==
  CASE provider = "hotmailb2c" -> {"smtp", "headless"}
    [] provider = "yahoo"      -> {"smtp", "headless", "api"}
    [] OTHER                   -> {"smtp"}

EmailType == [wellformed : BOOLEAN, disposable : BOOLEAN, role : BOOLEAN]

\* A verification method: the proxy is the id of one, or "none".
Smtp(proxy, retries, smtp_timeout) ==
  [method |-> "smtp", proxy |-> proxy, retries |-> retries, smtp_timeout |-> smtp_timeout]
Headless == [method |-> "headless", proxy |-> "none", retries |-> 1, smtp_timeout |-> FALSE]
Api == [Headless EXCEPT !.method = "api"]
MethodType == [method : {"smtp", "headless", "api"}, proxy : STRING, retries : Nat,
               smtp_timeout : BOOLEAN]
Default == [Headless EXCEPT !.method = "default"]

\* proxy, smtp_timeout: whether the file sets them at its top level; proxies: the
\* ids under overrides.proxies; override: that of the provider, or Default.
SettingsType == [proxy : BOOLEAN, smtp_timeout : BOOLEAN, proxies : SUBSET STRING,
                 override : MethodType \union {Default}]
\* bulk_v0: the request is a task of /v0/bulk; method: the field
\* yahoo_verif_method or hotmailb2c_verif_method that is for the provider.
RequestType == [bulk_v0 : BOOLEAN, proxy : BOOLEAN, smtp_timeout : BOOLEAN,
                method : {"default", "smtp", "headless", "api"}]

\* What a check needs of both.  retries and smtp_timeout are those of the
\* provider's method; proxy: it names none, a configured one, or another; skip:
\* the domain or the host has the rule SkipCatchAll; asked: the request has a
\* proxy, or the top level of the file has and nothing overrides it.
ConfType == [provider : Providers, method : {"smtp", "headless", "api"},
             proxy : {"none", "known", "unknown"}, retries : Nat,
             smtp_timeout : BOOLEAN, skip : BOOLEAN, asked : BOOLEAN]

Phrases == {"disabled", "full", "rate", "no mailbox", "5.1.1", "5.7.1",
            "blacklist", "reverse dns"}
ReplyType == [sort : {"permanent", "transient", "incomplete", "io"},
              says : SUBSET Phrases]
Accepted == [sort |-> "positive", says |-> {}]

ASSUME InputsAssumption ==
  /\ Emails \subseteq EmailType
  /\ \A s \in Settings : s \in SettingsType
  /\ Requests \subseteq RequestType
  /\ Refusals \subseteq ReplyType
  /\ \A r \in Refusals : r.sort \in {"incomplete", "io"} => r.says = {}
  /\ NoReply \notin ReplyType \union {Accepted}

Replies == Refusals \union {Accepted}

-----------------------------------------------------------------------------
(* The parser of replies and the classification of errors.                 *)

is_disabled_account(r) == "disabled" \in r.says
is_full_inbox(r) == "full" \in r.says
ReceivesAtARate(r) == "rate" \in r.says
\* Mutant: every permanent error means that there is no such mailbox.
MutantAnyPermanent(r) == "no mailbox" \in r.says \/ r.sort = "permanent"

is_invalid(r) ==
  \/ "no mailbox" \in r.says
  \/ r.sort = "permanent" /\ r.says \intersect {"5.1.1", "5.7.1"} # {}

FromServer(r) == r.sort \in {"permanent", "transient"}
is_err_ip_blacklisted(r) == FromServer(r) /\ "blacklist" \in r.says
is_err_needs_rdns(r) == FromServer(r) /\ "reverse dns" \in r.says
is_err_io_errors(r) == r.sort = "incomplete"

Deliverability(full, deliverable, disabled) ==
  [has_full_inbox |-> full, is_deliverable |-> deliverable, is_disabled |-> disabled]
Deliverables ==
  [has_full_inbox : BOOLEAN, is_deliverable : BOOLEAN, is_disabled : BOOLEAN]

\* The result of check_email_deliverability: a singleton, or empty on an error.
Verdict(r) ==
  IF r = Accepted THEN {Deliverability(FALSE, TRUE, FALSE)}
  ELSE IF is_disabled_account(r) THEN {Deliverability(FALSE, FALSE, TRUE)}
  ELSE IF is_full_inbox(r) THEN {Deliverability(TRUE, FALSE, FALSE)}
  ELSE IF ReceivesAtARate(r) THEN {Deliverability(FALSE, TRUE, FALSE)}
  ELSE IF is_invalid(r) THEN {Deliverability(FALSE, FALSE, FALSE)}
  ELSE {}

\* SmtpError: its variant, and the reply inside an AsyncSmtpError.
Errors == [type : {"AsyncSmtpError"}, reply : Refusals]
          \union [type : {"IOError", "Socks5", "Timeout", "HeadlessError", "YahooError"},
                  reply : {NoReply}]
AsyncSmtpError(r) == [type |-> "AsyncSmtpError", reply |-> r]
Error(type) == [type |-> type, reply |-> NoReply]

get_description(e) ==
  IF e.type # "AsyncSmtpError" THEN "None"
  ELSE IF is_err_ip_blacklisted(e.reply) THEN "IpBlacklisted"
  ELSE IF is_err_needs_rdns(e.reply) THEN "NeedsRDNS"
  ELSE "None"

Ok(d, is_catch_all) == [ok |-> TRUE, is_catch_all |-> is_catch_all, smtp |-> d]
Err(e) == [ok |-> FALSE, error |-> e]
Results == [ok : {TRUE}, is_catch_all : BOOLEAN, smtp : Deliverables]
           \union [ok : {FALSE}, error : Errors]

\* can_connect_smtp is TRUE in every SmtpDetails that a check returns.
calculate_reachable(misc, res) ==
  IF ~res.ok THEN "unknown"
  ELSE IF \/ misc.is_disposable \/ misc.is_role_account
          \/ res.is_catch_all \/ res.smtp.has_full_inbox THEN "risky"
  ELSE IF ~res.smtp.is_deliverable \/ res.smtp.is_disabled THEN "invalid"
  ELSE "safe"

\* mailchecker::is_valid refuses disposable domains as well.
MailcheckerValid(e) == e.wellformed /\ ~e.disposable
check_syntax(e) == e.wellformed /\ MailcheckerValid(e)
check_misc(e) == [is_disposable |-> ~MailcheckerValid(e), is_role_account |-> e.role]

-----------------------------------------------------------------------------
(* The method of a check: the file of the backend and the request.         *)

\* new_with_same_config_for_all, and what get_verif_method has by default.
SameForAll(provider, proxy, smtp_timeout) ==
  IF provider \in {"hotmailb2c", "yahoo"} THEN Headless
  ELSE Smtp(IF proxy THEN "default" ELSE "none", 1, smtp_timeout)

get_verif_method(s, provider) ==
  IF provider # "everything_else" /\ s.override # Default THEN s.override
  ELSE SameForAll(provider, s.proxy, s.smtp_timeout)

WithDefault(proxy, proxies) == IF proxy THEN {"default"} \union proxies ELSE proxies

\* What load_config accepts, as far as one provider's method goes.
validate_proxies(s, provider) ==
  LET proxy == get_verif_method(s, provider).proxy IN
  \/ provider \in {"mimecast", "proofpoint"}
  \/ proxy \in {"none"} \union WithDefault(s.proxy, s.proxies)

\* to_yahoo_verif_method and to_hotmailb2c_verif_method.
RequestedMethod(r, smtp_timeout) ==
  CASE r.method = "smtp"     -> Smtp(IF r.proxy THEN "default" ELSE "none", 1, smtp_timeout)
    [] r.method = "headless" -> Headless
    [] r.method = "api"      -> Api

\* Mutant: the method that the request asks for ignores its proxy.
MutantRequestedDirect(s, r, provider) ==
  LET smtp_timeout == r.smtp_timeout \/ s.smtp_timeout IN
  IF r.method # "default" THEN RequestedMethod([r EXCEPT !.proxy = FALSE], smtp_timeout)
  ELSE IF r.proxy THEN SameForAll(provider, TRUE, smtp_timeout)
  ELSE get_verif_method(s, provider)

\* The proxy and the method of the request come before the configuration.
to_check_email_input(s, r, provider) ==
  LET smtp_timeout == r.smtp_timeout \/ s.smtp_timeout IN
  IF r.method # "default" THEN RequestedMethod(r, smtp_timeout)
  ELSE IF r.proxy THEN SameForAll(provider, TRUE, smtp_timeout)
  ELSE get_verif_method(s, provider)

\* A task of /v0/bulk knows nothing of the configuration.
TaskInput(r, provider) == SameForAll(provider, r.proxy, FALSE)

Conf(s, r, provider, skip) ==
  LET input == IF r.bulk_v0 THEN TaskInput(r, provider) ELSE to_check_email_input(s, r, provider)
      proxies == IF r.proxy \/ r.bulk_v0 THEN WithDefault(r.proxy, {})
                 ELSE WithDefault(s.proxy, s.proxies)
      byDefault == r.method = "default" /\ (provider = "everything_else" \/ s.override = Default)
  IN  [provider |-> provider, method |-> input.method,
       proxy |-> IF input.proxy = "none" THEN "none"
                 ELSE IF input.proxy \in proxies THEN "known" ELSE "unknown",
       retries |-> input.retries, smtp_timeout |-> input.smtp_timeout, skip |-> skip,
       asked |-> r.proxy \/ (s.proxy /\ byDefault /\ ~r.bulk_v0)]

\* Whether the connections of the check go through a proxy.
get_proxy(c) == c.method = "smtp" /\ c.proxy = "known"

-----------------------------------------------------------------------------
VARIABLES
  email,       \* the address
  conf,        \* the configuration of its provider
  pc,          \* the await at which the check is suspended
  count,       \* the argument `count` of check_smtp_with_retry
  again,       \* this attempt has reconnected
  catch_all,   \* is_catch_all of this attempt
  verdict,     \* deliverability of this attempt: a set of at most one
  failure,     \* the error that try_smtp returns when the connection is closed
  result,      \* the result of the SMTP check
  output,      \* is_reachable of the CheckEmailOutput
  attempts,    \* history: the attempts so far, of SMTP or of the browser
  connections, \* history: the connections asked for so far
  direct,      \* history: one of them did not go through a proxy
  probed,      \* history: the reply to the random address in this attempt
  answered,    \* history: the last reply to the address in this attempt
  refused      \* history: what the last refusal of the client was taken for

input == <<email, conf>>
attempt == <<again, catch_all, verdict, failure, probed, answered>>
outcome == <<result, output>>
vars == <<input, pc, count, attempt, outcome, attempts, connections, direct, refused>>

\* The awaits of create_smtp_future, which the timeout cancels.
InAttempt == {"connect", "mail", "abort", "probe", "rcpt", "hangup", "quit"}

\* For the error of the attempt; for "no catch-all"; for a verdict on the mailbox,
\* which the reply was searched for first; or it was overtaken by the timeout.
RefusalFates == {"none", "error", "ignored", "verdict", "overtaken"}

Steps == {"syntax", "mx", "dispatch", "headless", "api", "done"} \union InAttempt

TypeOK ==
  /\ email \in Emails
  /\ conf \in ConfType
  /\ pc \in Steps
  /\ count \in 0..conf.retries
  /\ again \in BOOLEAN
  /\ catch_all \in BOOLEAN
  /\ verdict \in {{}} \union {{d} : d \in Deliverables}
  /\ failure \in Errors \union {NoResult}
  /\ result \in Results \union {NoResult}
  /\ output \in {"pending", "safe", "risky", "invalid", "unknown"}
  /\ attempts \in Nat
  /\ connections \in Nat
  /\ direct \in BOOLEAN
  /\ probed \in Replies \union {NoReply}
  /\ answered \in Replies \union {NoReply}
  /\ refused \in RefusalFates

Init ==
  /\ email \in Emails
  /\ \E p \in Providers, skip \in BOOLEAN : \E s \in Settings, r \in Requests :
       /\ {s.override.method, r.method} \subseteq {"default"} \union Methods(p)
       /\ p \notin {"hotmailb2c", "yahoo"} \/ r.bulk_v0 => r.method = "default"
       /\ validate_proxies(s, p)
       /\ conf = Conf(s, r, p, skip)
  /\ pc = "syntax"
  /\ count = 0
  /\ again = FALSE /\ catch_all = FALSE /\ verdict = {} /\ failure = NoResult
  /\ result = NoResult /\ output = "pending"
  /\ attempts = 0 /\ connections = 0
  /\ direct = FALSE
  /\ probed = NoReply /\ answered = NoReply
  /\ refused = "none"

-----------------------------------------------------------------------------
(* check_email around the SMTP check.                                      *)

\* Returns from check_email early, without an SMTP result.
ReturnEarly(reachable) ==
  /\ pc' = "done"
  /\ output' = reachable
  /\ UNCHANGED result

\* Returns from check_email with the result res of check_smtp.
Return(res) ==
  /\ pc' = "done"
  /\ result' = res
  /\ output' = calculate_reachable(check_misc(email), res)

CheckSyntax ==
  /\ pc = "syntax"
  /\ IF check_syntax(email) THEN pc' = "mx" /\ UNCHANGED outcome
                            ELSE ReturnEarly("invalid")
  /\ UNCHANGED <<input, count, attempt, attempts, connections, direct, refused>>

\* Records are found, there are none, or the lookup fails.  check_misc, whose
\* requests fail silently, changes nothing else.
CheckMx ==
  /\ pc = "mx"
  /\ \/ pc' = "dispatch" /\ UNCHANGED outcome
     \/ ReturnEarly("invalid")
     \/ ReturnEarly("unknown")
  /\ UNCHANGED <<input, count, attempt, attempts, connections, direct, refused>>

\* Mutant: `retries` counts what comes after the first connection.
MutantExtraTry ==
  /\ pc = "dispatch"
  /\ pc' = IF conf.method = "smtp" THEN "connect" ELSE conf.method
  /\ count' = IF conf.method = "smtp" THEN conf.retries + 1 ELSE 0
  /\ attempts' = 1
  /\ UNCHANGED <<input, attempt, outcome, connections, direct, refused>>

\* check_smtp: the choice of the method.
Dispatch ==
  /\ pc = "dispatch"
  /\ pc' = IF conf.method = "smtp" THEN "connect" ELSE conf.method
  /\ count' = IF conf.method = "smtp" THEN conf.retries ELSE 0
  /\ attempts' = 1
  /\ UNCHANGED <<input, attempt, outcome, connections, direct, refused>>

-----------------------------------------------------------------------------
(* The browser and the API.                                                *)

HeadlessAttempts == IF conf.provider = "yahoo" THEN 3 ELSE 1

\* The page shows one of the answers that the check waits for.
HeadlessAnswer ==
  /\ pc = "headless"
  /\ \E deliverable, disabled \in BOOLEAN :
       /\ disabled => ~deliverable /\ conf.provider = "yahoo"
       /\ Return(Ok(Deliverability(FALSE, deliverable, disabled), FALSE))
  /\ UNCHANGED <<input, count, attempt, attempts, connections, direct, refused>>

\* A command of the browser fails or its wait is over.
HeadlessFails ==
  /\ pc = "headless"
  /\ IF attempts < HeadlessAttempts
     THEN attempts' = attempts + 1 /\ UNCHANGED <<pc, outcome>>
     ELSE Return(Err(Error("HeadlessError"))) /\ UNCHANGED attempts
  /\ UNCHANGED <<input, count, attempt, connections, direct, refused>>

YahooApi ==
  /\ pc = "api"
  /\ \/ \E exists \in BOOLEAN : Return(Ok(Deliverability(FALSE, exists, FALSE), FALSE))
     \/ Return(Err(Error("YahooError")))
  /\ UNCHANGED <<input, count, attempt, attempts, connections, direct, refused>>

-----------------------------------------------------------------------------
(* One attempt over SMTP.                                                  *)

\* The reply says that the server does not serve this client.
Refuses(r) == r # Accepted /\ get_description(AsyncSmtpError(r)) # "None"
RefusedAs(fate, r) == refused' = IF Refuses(r) THEN fate ELSE refused

\* Mutants: a timeout is final; a refusal is retried as well.
MutantTimeoutFinal(e) == e.type # "Timeout" /\ get_description(e) = "None"
MutantRetryAll(e) == e.type \notin {"HeadlessError", "YahooError"}

Retryable(e) ==
  e.type \notin {"HeadlessError", "YahooError"} /\ get_description(e) = "None"

NextAttempt ==
  /\ pc' = "connect"
  /\ count' = count - 1
  /\ attempts' = attempts + 1
  /\ again' = FALSE /\ catch_all' = FALSE /\ verdict' = {} /\ failure' = NoResult
  /\ probed' = NoReply /\ answered' = NoReply
  /\ UNCHANGED outcome

\* Mutant: retries of 0 is taken for "no limit".
MutantNoLimit(e) ==
  IF Retryable(e) /\ count # 1
  THEN NextAttempt
  ELSE Return(Err(e)) /\ UNCHANGED <<count, attempt, attempts>>

\* The attempt returns the error e: check_smtp_with_retry tries again or gives up.
Fail(e) ==
  IF Retryable(e) /\ count > 1
  THEN NextAttempt
  ELSE Return(Err(e)) /\ UNCHANGED <<count, attempt, attempts>>

\* TCP or SOCKS5 fails; a greeting or EHLO that fails is returned without QUIT.
Connect ==
  /\ pc = "connect"
  /\ connections' = connections + 1
  /\ direct' = (direct \/ ~get_proxy(conf))
  /\ \/ /\ pc' = "mail"
        /\ UNCHANGED <<count, attempt, outcome, attempts, refused>>
     \/ /\ Fail(Error(IF get_proxy(conf) THEN "Socks5" ELSE "IOError"))
        /\ UNCHANGED refused
     \/ \E r \in Refusals :
          Fail(AsyncSmtpError(r)) /\ RefusedAs("error", r)
  /\ UNCHANGED input

\* MAIL FROM; on an error the connection is closed first.
Mail ==
  /\ pc = "mail"
  /\ \E r \in Replies :
       IF r = Accepted
       THEN /\ pc' = IF again \/ conf.skip THEN "rcpt" ELSE "probe"
            /\ UNCHANGED <<failure, refused>>
       ELSE /\ pc' = "abort"
            /\ failure' = AsyncSmtpError(r)
            /\ RefusedAs("error", r)
  /\ UNCHANGED <<input, count, again, catch_all, verdict, probed, answered,
                 outcome, attempts, connections, direct>>

\* The QUIT of try_smtp, whose result is ignored.
Abort ==
  /\ pc = "abort"
  /\ Fail(failure)
  /\ UNCHANGED <<input, connections, direct, refused>>

\* RCPT TO a random address of the domain; an error counts as "no catch-all",
\* a refusal of the client like any other.
Probe ==
  /\ pc = "probe"
  /\ \E r \in Replies :
       /\ probed' = r
       /\ catch_all' = \E d \in Verdict(r) : d.is_deliverable
       /\ verdict' = IF catch_all' THEN {Deliverability(FALSE, TRUE, FALSE)} ELSE {}
       /\ pc' = IF catch_all' THEN "quit" ELSE "rcpt"
       /\ RefusedAs("ignored", r)
  /\ UNCHANGED <<input, count, again, failure, answered, outcome, attempts,
                 connections, direct>>

\* RCPT TO the address: a verdict, a reconnection, or an error without QUIT.
Rcpt ==
  /\ pc = "rcpt"
  /\ \E r \in Replies :
       \/ /\ Verdict(r) # {}
          /\ verdict' = Verdict(r)
          /\ answered' = r
          /\ pc' = "quit"
          /\ RefusedAs("verdict", r)
          /\ UNCHANGED <<count, again, catch_all, failure, probed, outcome, attempts>>
       \/ /\ Verdict(r) = {}
          /\ is_err_io_errors(r) /\ ~again
          /\ answered' = r
          /\ pc' = "hangup"
          /\ UNCHANGED <<count, again, catch_all, verdict, failure, probed, outcome,
                         attempts, refused>>
       \/ /\ Verdict(r) = {}
          /\ ~is_err_io_errors(r) \/ again
          /\ Fail(AsyncSmtpError(r))
          /\ RefusedAs("error", r)
  /\ UNCHANGED <<input, connections, direct>>

\* The QUIT before the reconnection, whose result is ignored.
Hangup ==
  /\ pc = "hangup"
  /\ pc' = "connect"
  /\ again' = TRUE
  /\ UNCHANGED <<input, count, catch_all, verdict, failure, probed, answered, outcome,
                 attempts, connections, direct, refused>>

\* The final QUIT: its failure is the failure of the attempt.
Quit ==
  /\ pc = "quit"
  /\ \E r \in Replies :
       IF r = Accepted
       THEN /\ \E d \in verdict : Return(Ok(d, catch_all))
            /\ UNCHANGED <<count, attempt, attempts, refused>>
       ELSE Fail(AsyncSmtpError(r)) /\ RefusedAs("error", r)
  /\ UNCHANGED <<input, connections, direct>>

\* Mutant: only the RCPT commands are under the timeout.
MutantTimeoutLate ==
  /\ conf.smtp_timeout
  /\ pc \in {"probe", "rcpt"}
  /\ Fail(Error("Timeout"))
  /\ UNCHANGED <<input, connections, direct, refused>>

\* tokio's timeout cancels the attempt wherever it is suspended, and the error
\* that try_smtp was about to return is lost.
Timeout ==
  /\ conf.smtp_timeout
  /\ pc \in InAttempt
  /\ Fail(Error("Timeout"))
  /\ IF pc = "abort" THEN RefusedAs("overtaken", failure.reply) ELSE UNCHANGED refused
  /\ UNCHANGED <<input, connections, direct>>

Next ==
  \/ CheckSyntax \/ CheckMx \/ Dispatch
  \/ HeadlessAnswer \/ HeadlessFails \/ YahooApi
  \/ Connect \/ Mail \/ Abort \/ Probe \/ Rcpt \/ Hangup \/ Quit \/ Timeout

Spec == Init /\ [][Next]_vars

\* The resolver and the browser answer or give up, and a timer that is set
\* fires.  The mail server and Yahoo's pages may stay silent for ever.
FairSpec ==
  /\ Spec
  /\ WF_vars(CheckSyntax) /\ WF_vars(CheckMx) /\ WF_vars(Dispatch)
  /\ WF_vars(HeadlessAnswer \/ HeadlessFails) /\ WF_vars(Timeout)

-----------------------------------------------------------------------------
(* Properties.                                                             *)

Done == pc = "done"
AtLeastOne(n) == IF n = 0 THEN 1 ELSE n
BySmtp == conf.method = "smtp" /\ result # NoResult
\* The server takes mail for the address of the reply, perhaps later.
Takes(r) ==
  \/ r = Accepted
  \/ r \in Refusals /\ "rate" \in r.says /\ r.says \intersect {"disabled", "full"} = {}
\* The reply is about the mailbox, or has the status 5.7.1.
NoMailbox(r) == r.says \intersect {"disabled", "no mailbox", "5.1.1", "5.7.1"} # {}

\* However the attempts fail, there are at most `retries` of them (one when it
\* is 0, three of the browser for Yahoo), and an attempt reconnects at most
\* once: check_smtp_with_retry, create_smtp_future and check_headless.
ConnectionsBound ==
  /\ attempts <= IF conf.method = "smtp" THEN AtLeastOne(conf.retries) ELSE 3
  /\ connections <= 2 * attempts

\* An attempt is given up for good only when it must be: an unknown outcome
\* means that the last of the configured attempts has failed or that the server
\* has named a known reason (the retry of check_smtp_with_retry).
UnknownIsExhausted ==
  BySmtp /\ ~result.ok /\ get_description(result.error) = "None"
    => attempts = AtLeastOne(conf.retries)

\* What the output says is what the server has said in the very attempt that
\* ended well, whatever was heard on connections before: "safe" and "invalid"
\* rest on a reply to the address and not to the random one, and catch-all on
\* an accepted random address (create_smtp_future, calculate_reachable).  That
\* the server refuses, whatever it says of the client, does not make the email
\* invalid: it must say so of the mailbox, or with the status 5.7.1, which
\* is_invalid takes for a missing mailbox.
VerdictIsBacked ==
  BySmtp /\ result.ok =>
    /\ result.is_catch_all => Takes(probed)
    /\ output = "safe" => Takes(answered) /\ ~Takes(probed)
    /\ output = "invalid" =>
         answered \in Refusals /\ FromServer(answered) /\ NoMailbox(answered)

\* A refusal of this client ends the check: "Only retry if the SMTP error was
\* unknown" (check_smtp_with_retry), also when try_smtp first closes the connection
\* and with a timeout running.  Three refusals are none to the code, and connections
\* may follow: one of the random address (smtp_is_catch_all(..).unwrap_or(false)),
\* one that is searched for a verdict on the mailbox first, and one that the timeout
\* overtakes while try_smtp sends QUIT.
RefusedIsFinal == [][refused = "error" => connections' = connections]_vars

\* The request, an accepted override or the file asks for a proxy.
ProxyIsDue ==
  conf.asked \/ (conf.proxy # "none" /\ conf.provider \notin {"mimecast", "proofpoint"})

\* Who asks for a proxy never gets a connection without it, whichever way the
\* method of the check has taken: the proxy of the request ("we force use the
\* proxy for all the verifications"), that of an override, which load_config has
\* accepted, or by default the one at the top level of the file.  The overrides
\* for Mimecast and Proofpoint, which validate_proxies leaves out, are excluded.
NoDirectConnection == ProxyIsDue => ~direct

\* With a timeout or through the browser, every verification comes to an end
\* (check_smtp_without_retry, check_headless).
CheckEnds ==
  (conf.smtp_timeout \/ conf.method = "headless") ~> Done

\* "For each email provider's verification method, the proxy (if set) must
\* exist in the `proxies` field" (load_config): no accepted configuration
\* connects without the proxy it sets.
ProxyIsUsed == conf.proxy # "none" => ~direct
-----------------------------------------------------------------------------
(* The inductive invariant of SmtpCheckProofs.                             *)

\* Where a proxy is due, the configuration of a check over SMTP has one.
ConfInv ==
  /\ conf.method = "smtp" /\ ProxyIsDue => conf.proxy = "known"
  /\ NoDirectConnection

\* `count` and the attempts so far add up to `retries`.
Tries ==
  IF conf.retries = 0 THEN count = 0 /\ attempts = 1
                      ELSE count > 0 /\ attempts + count = conf.retries + 1
AttemptInv ==
  /\ pc \in {"syntax", "mx", "dispatch"} => attempts = 0
  /\ pc \in {"headless", "api"} => conf.method = pc /\ attempts \in 1..3
  /\ pc \in InAttempt => conf.method = "smtp" /\ Tries
  /\ pc = "done" => attempts <= IF conf.method = "smtp" THEN AtLeastOne(conf.retries) ELSE 3

\* Each attempt connects once, and once more when it has hung up.
ConnectInv ==
  /\ connections <= 2 * attempts
  /\ pc \in InAttempt =>
       connections + (IF again THEN 0 ELSE 1) + (IF pc = "connect" THEN 1 ELSE 0) <= 2 * attempts
  /\ pc = "hangup" => ~again

\* What the current attempt has heard, and what it concludes.
VerdictInv ==
  /\ catch_all <=> Takes(probed)
  /\ catch_all => pc \in {"quit", "done"}
  /\ pc = "quit" =>
       IF catch_all THEN verdict = {Deliverability(FALSE, TRUE, FALSE)}
                    ELSE answered \in Replies /\ verdict = Verdict(answered)
  /\ pc = "abort" => failure \in Errors /\ failure.type = "AsyncSmtpError"

\* There is no result before the end, and a result says why there are no more
\* attempts.
ResultInv ==
  /\ pc # "done" => result = NoResult
  /\ UnknownIsExhausted
  /\ VerdictIsBacked

\* A refusal leads to the end at once, or over the QUIT of try_smtp.
RefusedInv ==
  refused = "error" =>
    pc = "done" \/ (pc = "abort" /\ get_description(failure) # "None")

IInv == TypeOK /\ ConfInv /\ AttemptInv /\ ConnectInv /\ VerdictInv /\ ResultInv /\ RefusedInv
=============================================================================
