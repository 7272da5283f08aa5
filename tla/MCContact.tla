------------------------------ MODULE MCContact ------------------------------
(****************************************************************************)
(* Contact for TLC: a tenant with a country and three versions of its pack, *)
(* and one without a country whose subscriber has a foreign number.  Dial   *)
(* codes are as in the code, numbers as short as the length rules allow.    *)
(****************************************************************************)
EXTENDS Contact, TLC

CONSTANTS w1, w2

Rules == ("GB" :> [dial |-> <<4, 4>>, trunk |-> <<0>>])
      @@ ("US" :> [dial |-> <<1>>, trunk |-> <<1>>])
      @@ ("IE" :> [dial |-> <<3, 5, 3>>, trunk |-> <<0>>])
      @@ ("AU" :> [dial |-> <<6, 1>>, trunk |-> <<0>>])

Names == {"a", "b", "c"}

\* National numbers of the subscribers, and the values stored for them.
Nsn(i) == <<7, 7, 0, 0, 9, i>>
Gb(i) == Number("+", <<4, 4>> \o Nsn(i), FALSE)
Us == Number("+", <<1, 2, 0, 2, 5, 5, 5, 0, 1>>, FALSE)

Values(phones, names) ==
    [i \in 0..(Len(phones) - 1) |->
        [t \in IdTypes |-> IF t \in {"phone", "msisdn"} THEN phones[i + 1]
                           ELSE IF t = "email" THEN Email(names[i + 1], TRUE)
                           ELSE Account(names[i + 1], TRUE)]]

\* As shipped; then with its account pattern, factor type and channels edited, so
\* that party 0 takes the email and account party 1 had, and only party 0 has a
\* home; then cut to one party, its number under two types and no homes at all.
North1 == [tenant |-> "northwind", country |-> "GB", count |-> 2,
           id_types |-> {"phone", "email", "account_no"},
           values |-> Values(<<Gb(1), Gb(2)>>, <<"a", "b">>),
           factor_type |-> "pin", factor |-> [i \in 0..1 |-> "24680"],
           channels |-> {"sms", "email"},
           networked |-> TRUE,
           homes |-> [i \in {0, 1, 5} |-> IF i = 0 THEN {"gateway", "upstairs"}
                                          ELSE {"gateway"}]]
North2 == [North1 EXCEPT !.values = Values(<<Gb(1), Gb(2)>>, <<"b", "c">>),
                         !.factor_type = "dob",
                         !.factor = [i \in 0..1 |-> "1990"],
                         !.channels = {"sms"},
                         !.homes = [i \in {0} |-> {"gateway"}]]
North3 == [North1 EXCEPT !.count = 1, !.values = Values(<<Gb(1)>>, <<"c">>),
                         !.id_types = {"phone", "msisdn", "account_no"},
                         !.factor = [i \in {0} |-> "24680"],
                         !.networked = FALSE, !.homes = <<>>]
Acme1 == [tenant |-> "acme", country |-> "", count |-> 1,
          id_types |-> {"msisdn", "email"},
          values |-> Values(<<Us>>, <<"a">>),
          factor_type |-> "pin", factor |-> [i \in {0} |-> "1990"],
          channels |-> {"email"},
          networked |-> TRUE, homes |-> [i \in {0} |-> {"gateway"}]]

Packs == {North1, North2, North3, Acme1}
First == [t \in {"northwind", "acme"} |-> IF t = "acme" THEN Acme1 ELSE North1]

\* Party 0's keys sort before party 1's: the edit from North1 to North2 meets the
\* unique constraint, the one back does not.
Ranks == [k \in (0..1) \X IdTypes |-> k[1]]

ASSUME UsualNumbers == RulesApart /\ NumbersFollowPlan

\* A text of party 1, and one of a subscriber of either tenant.
Heard == {Number("", <<0>> \o Nsn(2), TRUE), Email("a", FALSE)}

\* Every spelling of the numbers, numbers of no one, too short or too long; of party
\* 0's also with separators.
Spelt(i) == {Gb(i).digits, Nsn(i), <<0>> \o Nsn(i)}
Odd == {Gb(3).digits, Us.digits, Tail(Us.digits), <<0, 0>> \o Gb(1).digits,
        <<4, 4>>, <<0>>, [i \in 1..16 |-> 4]}

Texts ==
    {Number(lead, digits, TRUE) : lead \in {"", "+", " "}, digits \in Spelt(1)}
    \union {Number(lead, digits, FALSE) : lead \in {"", "+", " "},
                                          digits \in Spelt(1) \union Spelt(2) \union Odd}
    \union {Email(n, f) : n \in Names, f \in BOOLEAN}
    \union {Account(n, f) : n \in Names, f \in BOOLEAN}
    \union {Junk} \union Heard

\* Workers are alike.
AlikeWorkers == Permutations(Worker)
=============================================================================
