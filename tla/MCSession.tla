------------------------------ MODULE MCSession ------------------------------
(***************************************************************************)
(* Session with the five detectors of Posture.  The command lines are a    *)
(* union of small families, one for each question: every kind of pack      *)
(* directory, pairs of -only and -skip, and every format.                  *)
(***************************************************************************)
EXTENDS Session

MCAll == <<"dns", "dmarc", "bimi", "mta-sts", "tenant">>
MCName == ToSet(MCAll) \cup {"bogus"}

MCLabel == {"acme", "example", "trade", "vendor", "com", "_dmarc", "default", "_bimi", "_mta-sts"}
MCLength == [l \in MCLabel |-> 5]
MCFits == [l \in MCLabel |-> {l}]

MCLower == [n \in MCLabel \cup {"", "Token=", "token=", "mail", "{domain}"} |->
              IF n = "Token=" THEN "token=" ELSE n]

MCDomain == <<"acme", "example">>
Stranger == <<"vendor", "com">>
Own == <<"www", "acme", "example">>

MCOccurs(needle, host) == needle = "vendor" /\ host = Stranger

-----------------------------------------------------------------------------
Sig(id, type, query, contains) ==
  [id |-> id, vendor |-> "V-" \o id, type |-> type, query |-> query, url |-> FALSE,
   match |-> IF contains = "" THEN {} ELSE {"contains"}, contains |-> contains,
   confidence |-> "", category |-> "", disabled |-> FALSE]

Token == Sig("token", "txt", <<"{domain}">>, "Token=")
TokenHigh == [Sig("token-high", "txt", <<"{domain}">>, "token=") EXCEPT !.confidence = "high"]
Mail == Sig("mail", "mx", <<"{domain}">>, "mail")
Portal == Sig("portal", "cname", <<"{candidate}", "vendor", "com">>, "vendor")
Rua == Sig("rua", "dmarc_rua", <<"{domain}">>, "vendor")
Target == Sig("target", "cname_target", <<"vendor", "com">>, "")
Vanity == Sig("vanity", "vanity_a", <<"{candidate}", "vendor", "com">>, "")
Http == [Sig("http", "http", <<"{candidate}", "vendor", "com">>, "")
           EXCEPT !.url = TRUE, !.match = {"status", "present"}]

Off(sig) == [sig EXCEPT !.disabled = TRUE]

\* One signature that validation refuses, for each of its rules.
Faulty ==
  [noId |-> [Token EXCEPT !.id = ""], noVendor |-> [Token EXCEPT !.vendor = ""],
   noQuery |-> [Token EXCEPT !.query = <<>>], badType |-> [Token EXCEPT !.type = "a"],
   badConfidence |-> [Token EXCEPT !.confidence = "certain"],
   noNeedle |-> [Token EXCEPT !.match = {}, !.contains = ""],
   absentNeedle |-> [Token EXCEPT !.match = {"contains", "absent"}],
   vanityFixed |-> [Vanity EXCEPT !.query = <<"{domain}">>],
   vanityMatch |-> [Vanity EXCEPT !.match = {"contains"}],
   targetGlob |-> [Target EXCEPT !.query = <<"*", "com">>],
   targetTemplate |-> [Target EXCEPT !.query = <<"{domain}">>],
   targetMatch |-> [Target EXCEPT !.match = {"present"}],
   httpNoUrl |-> [Http EXCEPT !.url = FALSE], httpNoMatch |-> [Http EXCEPT !.match = {}],
   httpBoth |-> [Http EXCEPT !.match = {"present", "absent"}],
   httpContains |-> [Http EXCEPT !.match = {"status", "contains"}]]

PackOf(sigs) ==
  [readable |-> TRUE, version |-> 1, category |-> "", confidence |-> "", signatures |-> sigs]

MCText == STRING

\* Directories by name: some sound, some with one fault, some that repeat an id.
MCPacks ==
  [one     |-> <<PackOf(<<Token>>)>>,
   world   |-> <<PackOf(<<Token, TokenHigh>>), PackOf(<<Mail, Rua, Target>>)>>,
   named   |-> <<PackOf(<<Portal, Target>>)>>,
   rare    |-> <<[PackOf(<<Token, Off(Vanity), Http>>) EXCEPT !.confidence = "low"],
                 [PackOf(<<TokenHigh, Off(Portal)>>) EXCEPT !.category = "Storage"]>>,
   empty   |-> <<>>,
   broken  |-> <<PackOf(<<Token>>), [PackOf(<<>>) EXCEPT !.readable = FALSE]>>,
   newer   |-> <<[PackOf(<<Token>>) EXCEPT !.version = 2]>>,
   hollow  |-> <<PackOf(<<Token>>), PackOf(<<>>)>>,
   twice   |-> <<PackOf(<<Token>>), PackOf(<<Rua, [Mail EXCEPT !.id = "token"]>>)>>,
   shadow  |-> <<PackOf(<<Off(Token), Mail>>), PackOf(<<Token>>)>>,
   parked  |-> <<PackOf(<<Off(Token), Off(Mail)>>)>>,
   parkedFault |-> <<PackOf(<<Mail>>), PackOf(<<Off([Token EXCEPT !.query = <<>>])>>)>>]
  @@ [d \in DOMAIN Faulty |-> <<PackOf(<<Mail>>), PackOf(<<Faulty[d]>>)>>]

-----------------------------------------------------------------------------
Listed(names) == [given |-> TRUE, names |-> names]

Plain ==
  [mode |-> "scan", sigDir |-> "one", envDir |-> NoDirectory, given |-> "yes", args |-> <<>>,
   only |-> Listed(<<"dns">>), skip |-> Unset, format |-> "json", compact |-> FALSE,
   showWarnings |-> FALSE, reportUnknown |-> TRUE, file |-> TRUE, timed |-> FALSE]

Loads ==
  {[Plain EXCEPT !.mode = "validate", !.sigDir = d] : d \in DOMAIN MCPacks}
  \cup {[Plain EXCEPT !.sigDir = NoDirectory, !.envDir = d] : d \in {NoDirectory, "rare"}}
  \cup {[Plain EXCEPT !.mode = m] : m \in {"malformed", "version"}}

Selections ==
  {[Plain EXCEPT !.only = Listed(only), !.skip = skip] :
     only \in {<<"dns">>, <<"dns", "dns">>, <<"dmarc", "bimi">>, <<"dns", "bogus">>},
     skip \in {Unset, Listed(<<"dns">>), Listed(<<"bogus">>)}}
  \cup {[Plain EXCEPT !.only = Unset, !.skip = Listed(SelectSeq(MCAll, LAMBDA d : d \notin keep))] :
          keep \in {{}, {"dns"}, {"dmarc", "bimi"}, {"tenant"}}}
  \cup {[Plain EXCEPT !.only = Unset, !.skip = Listed(<<"dns", "bogus">>)],
        [Plain EXCEPT !.only = Listed(<<>>), !.skip = Listed(<<"dns">>)]}

Formats ==
  {[Plain EXCEPT !.sigDir = "world", !.format = f, !.compact = c, !.showWarnings = w,
                 !.timed = TRUE, !.only = Listed(<<"dns", "dmarc">>)] :
     f \in {"", "cli", "JSON", "jsonl", "csv", "html", "bogus"}, c, w \in BOOLEAN}

Worlds ==
  {[Plain EXCEPT !.sigDir = d, !.reportUnknown = u, !.only = Listed(<<x>>), !.args = a] :
     d \in {"world", "named"}, u \in BOOLEAN, x \in ToSet(MCAll),
     a \in {<<>>, <<" Trade", "trade", " ">>, <<"acme", "trade">>}}
  \cup {[Plain EXCEPT !.given = g] : g \in {"missing", "blank"}}

MCCommands == Loads \cup Selections \cup Formats \cup Worlds

MCClean == [a \in {"acme", "trade", " Trade", " "} |->
              CASE a = "acme" -> <<"acme">> [] a = " " -> <<>> [] OTHER -> <<"trade">>]

MCFormatOf == [f \in {"", "cli", "JSON", "json", "jsonl", "csv", "html", "bogus"} |->
                 CASE f = "" -> "cli" [] f = "JSON" -> "json" [] OTHER -> f]

-----------------------------------------------------------------------------
Record(tag, holds, terms, text) == [tag |-> tag, holds |-> holds, terms |-> terms, text |-> text]
Term(tag, host) == [tag |-> tag, host |-> host]
Reply(records) == [records |-> records, across |-> {}]
Nothing == Reply(<<>>)

\* Two records that hold a needle only as one text, across the mark between them.
Split == [Reply(<<Record("", {}, {}, "t3"), Record("", {}, {}, "t4")>>) EXCEPT !.across = {"token="}]

AnswersTo(question) ==
  CASE question = <<"txt", DmarcName>> ->
         {Reply(<<Record("", {}, {}, "other"),
                  Record("v=dmarc1", {}, {Term("rua", Stranger), Term("ruf", Own),
                                          Term("rua", <<"trade", "com">>),
                                          Term("p", <<"none">>)}, "r1")>>)}
    [] question = <<"txt", BimiName>> ->
         {Reply(<<Record("v=bimi1", {}, {Term("url", Stranger), Term("url", Own)}, "b1"),
                  Record("v=bimi1", {}, {Term("url", <<"trade", "com">>)}, "b2")>>)}
    [] question = <<"txt", StsName>> -> {Nothing, Reply(<<Record("v=stsv1", {}, {}, "s1")>>)}
    [] question = <<"txt", MCDomain>> ->
         {Nothing, Split, Reply(<<Record("", {}, {}, "t1"), Record("", {"token="}, {}, "t2")>>)}
    [] question = <<"mx", MCDomain>> -> {Reply(<<Record("", {"mail"}, {}, "m1")>>)}
    [] OTHER -> {Nothing, Reply(<<Record("", {"vendor"}, {}, "c1")>>)}

MCAnswer ==
  UNION {AnswersTo(<<t, name>>) :
           t \in {"txt", "mx", "cname"}, name \in {DmarcName, BimiName, StsName, MCDomain}}

MCAnswers(a, question) == a \in AnswersTo(question)

Page(kind, hosts, needles) == [kind |-> kind, hosts |-> hosts, needles |-> needles]

MCPages(step) ==
  CASE step = "policy" -> {Page("ok", <<>>, {"mail"}), Page("refused", <<>>, {"mail"})}
    [] step = "openid" -> {Page("tenant", <<>>, {})}
    [] step = "realm" -> {Page("managed", <<>>, {}), Page("unknown", <<>>, {})}
                         \cup {Page("federated", hosts, {}) : hosts \in {<<>>, <<Stranger>>, <<Own>>}}
    [] step = "domains" -> {Page("ok", <<MCDomain, Own>>, {}), Page("ok", <<MCDomain>>, {})}

=============================================================================
