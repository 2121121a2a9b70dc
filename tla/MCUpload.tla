------------------------------ MODULE MCUpload ------------------------------
(* Rows and files for Upload.  Times are in units of 5 minutes: grouping   *)
(* uses windows of 12, duplicates are 2 apart, cases are found 6 apart.    *)
EXTENDS Upload

CONSTANTS c1, c2, c3, c4

Blank == [user |-> None, upn |-> None, box |-> None, device |-> None, ip |-> None,
          public |-> {}, recipient |-> None, sender |-> None, class |-> None,
          cat |-> "identity", type |-> "signIn", src |-> None, at |-> None,
          sev |-> 2, scores |-> {40}, context |-> FALSE, inferable |-> TRUE,
          quiet |-> FALSE, rich |-> FALSE]

Of(user) == [user |-> user, upn |-> user] @@ Blank

SignIn(user, t, s) == [at |-> t, scores |-> {s}] @@ Of(user)

FromX(user) == [public |-> {"x"}, ip |-> "x", at |-> 5] @@ Of(user)

Host(t) == [cat |-> "endpoint", type |-> "process", device |-> "h", at |-> t] @@ Blank

Quiet(t, sev) == [quiet |-> TRUE, at |-> t, sev |-> sev] @@ Of("a@")

(* The alerts that are grouped in every order, nothing being stored.       *)
Core == {SignIn("a@", 0, 40), SignIn("a@", 1, 60), FromX("a@"), FromX("b@"),
         [public |-> {"x", "y"}, sev |-> 4] @@ FromX("c@")}

More == {SignIn("a@", 11, 40), SignIn("a@", 23, 50), Host(3),
         [box |-> "a@", recipient |-> "m", cat |-> "email", at |-> 2] @@ Blank}

Orders == [1..4 -> Core] \cup [1..3 -> Core \cup More]

(* Files that are stored, uploaded again, and overlap in user and time.    *)
Silent == <<Quiet(0, 4), Blank>>

Stored == {<<Host(0), [device |-> "h", ip |-> "p", at |-> None] @@ Of("a@")>>, Silent,
           <<Quiet(2, 2), [scores |-> {40, 60}, at |-> 4] @@ Host(4)>>}

AllRules == {[types |-> {"signIn"}, sevs |-> {2}, maxScore |-> 50, close |-> FALSE],
             [types |-> {"signIn", "process"}, sevs |-> {2}, maxScore |-> 45, close |-> TRUE]}

Content(ext, opens, parsers, rows) ==
    [ext |-> ext, opens |-> opens, rows |-> [p \in Parsers |-> IF p \in parsers THEN rows ELSE <<>>]]

Contents(rows) == {Content("csv", "text", {"csv"}, rows)}

(* Files whose name or first line misleads; all hold the same rows.        *)
Misnamed == {Content("leef", "json", {"json", "csv"}, Silent),
             Content("log", "pairs", {"kv", "csv"}, Silent),
             Content("json", "text", {"jsonl"}, Silent)}

AllRequests ==
    [content: UNION {Contents(f) : f \in Stored} \cup Misnamed,
     mode: {"batch", "single", "grouped"}, persist: {TRUE}]
        \cup [content: UNION {Contents(f) : f \in Orders}, mode: {"grouped"}, persist: {FALSE}]

(* Orders are only explored as the first upload: nothing is stored by      *)
(* them, so one after another upload shows nothing new.                    *)
OrdersFirst == uploads' > uploads /\ ~persist' => uploads = 0

Symmetry == Permutations(CaseIds)
=============================================================================
