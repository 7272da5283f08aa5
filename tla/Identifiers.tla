----------------------------- MODULE Identifiers -----------------------------
(****************************************************************************)
(* Identifier normalization at the gx boundary (app/gx/normalize.py): what  *)
(* Genesys sends becomes a value the spine can match exactly, and its type. *)
(*                                                                          *)
(* A text is a record.  A number has its digits, what leads them ("+", the  *)
(* space a "+" decodes to in a query string, or nothing) and whether        *)
(* separators are sprinkled in; an email or an account number has a name    *)
(* and whether its letters already have the stored case; everything else is *)
(* junk.  Surrounding blanks are stripped by the code and left out here.    *)
(****************************************************************************)
EXTENDS Integers, Sequences

CONSTANT DialRules      \* COUNTRY_DIAL_RULES: dial code and trunk prefix, as digits

IdTypes == {"phone", "email", "account_no", "msisdn"}

Number(lead, digits, separated) ==
    [shape |-> "number", lead |-> lead, digits |-> digits, separated |-> separated]
Email(name, folded)   == [shape |-> "email", name |-> name, folded |-> folded]
Account(name, folded) == [shape |-> "account", name |-> name, folded |-> folded]
Junk                  == [shape |-> "junk"]

MinDigits == 8
MaxDigits == 15

ASSUME RulesType ==
    \A c \in DOMAIN DialRules :
        /\ DialRules[c].dial \in Seq(0..9) \ {<<>>}
        /\ DialRules[c].trunk \in Seq(0..9) \ {<<>>}

IsText(x) ==
    \/ /\ x.shape = "number"
       /\ x = Number(x.lead, x.digits, x.separated)
       /\ x.lead \in {"", " ", "+"}
       /\ x.digits \in Seq(0..9)
       /\ x.separated \in BOOLEAN
    \/ x.shape = "email" /\ x = Email(x.name, x.folded) /\ x.folded \in BOOLEAN
    \/ x.shape = "account" /\ x = Account(x.name, x.folded) /\ x.folded \in BOOLEAN
    \/ x.shape = "junk" /\ x = Junk

\* Faulty variant: only the digits are looked at, never the lead.
NotRestored(raw) == raw

\* _restore_eaten_plus: only for a space and nothing but digits after it.
RestoreEatenPlus(raw) ==
    IF raw.shape = "number" /\ raw.lead = " " /\ ~raw.separated
    THEN [raw EXCEPT !.lead = "+"] ELSE raw

StartsWith(digits, prefix) ==
    Len(prefix) <= Len(digits) /\ SubSeq(digits, 1, Len(prefix)) = prefix

Without(digits, prefix) == SubSeq(digits, Len(prefix) + 1, Len(digits))

PlausibleLength(digits) == Len(digits) \in MinDigits..MaxDigits

CarriesDialCode(digits, rules) ==
    StartsWith(digits, rules.dial) /\ Len(digits) > Len(rules.dial) + 4

\* The national part: the dial code is dropped from a number long enough to
\* carry one, else the trunk prefix.
National(digits, rules) ==
    IF CarriesDialCode(digits, rules) THEN Without(digits, rules.dial)
    ELSE IF StartsWith(digits, rules.trunk) THEN Without(digits, rules.trunk)
    ELSE digits

NoDigits == <<>>

\* The digits of the E.164 number, or none.  A country without rules, or no
\* country, leaves a bare national number unresolved.
ToE164(digits, hasPlus, country) ==
    IF hasPlus
    THEN IF PlausibleLength(digits) THEN digits ELSE NoDigits
    ELSE IF country \notin DOMAIN DialRules THEN NoDigits
    ELSE LET rules    == DialRules[country]
             national == National(digits, rules)
             number   == rules.dial \o national
         IN  IF national # <<>> /\ PlausibleLength(number) THEN number ELSE NoDigits

\* What the rules of the code meet and nothing checks: dial codes are short, and a
\* number that starts with a trunk prefix does not start with the dial code as well,
\* unless they are the same digits.
RulesApart ==
    \A c \in DOMAIN DialRules :
        LET rules == DialRules[c]
        IN  /\ Len(rules.dial) <= 3
            /\ rules.dial # rules.trunk =>
                   ~StartsWith(rules.dial, rules.trunk) /\ ~StartsWith(rules.trunk, rules.dial)

\* A number of the country whose national part cannot be taken for a longer one: it
\* starts neither with the dial code nor with the trunk prefix.
FollowsPlan(digits, rules) ==
    StartsWith(digits, rules.dial) =>
        LET national == Without(digits, rules.dial)
        IN  ~CarriesDialCode(national, rules) /\ ~StartsWith(national, rules.trunk)

Unrecognized(raw) == [recognized |-> FALSE, value |-> raw, id_type |-> "unrecognized"]
Recognized(value, id_type) == [recognized |-> TRUE, value |-> value, id_type |-> id_type]

NormalizeIdentifier(text, country) ==
    LET raw  == RestoreEatenPlus(text)
        e164 == ToE164(raw.digits, raw.lead = "+", country)
    IN  CASE raw.shape = "email"   -> Recognized(Email(raw.name, TRUE), "email")
          [] raw.shape = "account" -> Recognized(Account(raw.name, TRUE), "account_no")
          [] raw.shape = "junk"    -> Unrecognized(raw)
          [] raw.shape = "number"  -> IF e164 = NoDigits THEN Unrecognized(raw)
                                      ELSE Recognized(Number("+", e164, FALSE), "phone")
=============================================================================
