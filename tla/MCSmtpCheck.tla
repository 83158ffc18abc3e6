---------------------------- MODULE MCSmtpCheck ----------------------------
EXTENDS SmtpCheck

Address(disposable, role) ==
  [wellformed |-> TRUE, disposable |-> disposable, role |-> role]
AllEmails == {Address(d, r) : d, r \in BOOLEAN}
             \union {[wellformed |-> FALSE, disposable |-> FALSE, role |-> FALSE]}

\* One configured id and the conventional one.
Ids == {"default", "proxy1"}
AllSettings ==
  [proxy : BOOLEAN, smtp_timeout : BOOLEAN, proxies : SUBSET {"proxy1"},
   override : {Smtp(p, n, t) : p \in Ids \union {"none"}, n \in 0..2, t \in BOOLEAN}
              \union {Headless, Api, Default}]
AllRequests == {r \in RequestType : r.bulk_v0 => ~r.smtp_timeout /\ r.method = "default"}

Reply(sort, says) == [sort |-> sort, says |-> says]

\* Replies of the kinds quoted in the comments of parser.rs.
SomeRefusals ==
  {Reply("permanent", {"disabled"}), Reply("transient", {"full"}),
   Reply("transient", {"rate"}), Reply("permanent", {"5.1.1"}),
   Reply("permanent", {"blacklist"}), Reply("transient", {"reverse dns"}),
   Reply("transient", {}), Reply("incomplete", {}), Reply("io", {})}

\* "5.7.1 ... Client host rejected: Access denied"
WithPolicy == SomeRefusals \union {Reply("permanent", {"5.7.1", "blacklist"})}
=============================================================================
