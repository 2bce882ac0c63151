------------------------------- MODULE SignUp -------------------------------
(***************************************************************************)
(* Asking for a workspace and for a new password (web/src:                 *)
(* app/(auth)/register/page, app/(auth)/forgot-password/page,              *)
(* services/auth.service) against the server's sign-up                     *)
(* (server: auth/service, migration 20261009_0022).                        *)
(*                                                                         *)
(* The address of the booking page, the slug, follows the workspace's name *)
(* until it is edited, and is looked up whenever its field is left.  The   *)
(* fields can be edited while a request is under way.                      *)
(***************************************************************************)
EXTENDS Naturals, FiniteSets

CONSTANTS Emails,      \* the addresses of mail
          Slugs,       \* the addresses of pages that are long enough
          LinkLimit,   \* links an address may ask for in an hour
          MaxChecks,   \* bound: lookups under way
          None         \* a slug too short, no request

SignUpAssumption == None \notin Slugs /\ None \notin Emails /\ MaxChecks \in Nat /\ LinkLimit \in Nat

VARIABLES owner,     \* the mail address a slug's workspace was made for; "other" for someone else's
          mailed,    \* the addresses a link was sent to
          asked,     \* the links asked for in this hour
          page,      \* "register", "inbox", "forgot" or "sent"
          email, slug, edited,
          taken,     \* the form says that the slug is taken
          loading,
          checks,    \* the lookups under way
          request,   \* the request under way
          sentTo     \* the address the page names

vars == <<owner, mailed, asked, page, email, slug, edited, taken, loading, checks, request, sentTo>>

Stages == {"sent", "accepted", "taken", "failed"}
Requests == [kind: {"signup", "reset"}, email: Emails, slug: Slugs \cup {None}, stage: Stages]
Checks == [slug: Slugs, stage: {"asked", "available", "unavailable"}]

TypeOK == /\ owner \in [Slugs -> Emails \cup {"other", None}]
          /\ mailed \subseteq Emails /\ asked \in [Emails -> 0..LinkLimit]
          /\ page \in {"register", "inbox", "forgot", "sent"}
          /\ email \in Emails /\ slug \in Slugs \cup {None}
          /\ edited \in BOOLEAN /\ taken \in BOOLEAN
          /\ checks \subseteq Checks /\ Cardinality(checks) <= MaxChecks
          /\ request \in Requests \cup {None}
          /\ sentTo \in Emails \cup {None}
          /\ loading <=> request # None /\ page \in {"register", "forgot"}
          /\ page \in {"inbox", "sent"} <=> sentTo # None

Init == /\ owner \in [Slugs -> {"other", None}]
        /\ mailed = {} /\ asked = [e \in Emails |-> 0] /\ page = "register" /\ email \in Emails
        /\ slug = None /\ edited = FALSE /\ taken = FALSE /\ loading = FALSE
        /\ checks = {} /\ request = None /\ sentTo = None

server == <<owner, mailed, asked>>
Registered(e) == \E s \in Slugs : owner[s] = e

-----------------------------------------------------------------------------
(* The fields. *)

TypeEmail ==
    /\ page \in {"register", "forgot"}
    /\ \E e \in Emails \ {email} : email' = e
    /\ UNCHANGED <<server, page, slug, edited, taken, loading, checks, request, sentTo>>

\* The slug follows the name, and what was said of it is withdrawn, until it is edited.
TypeName ==
    /\ page = "register" /\ ~edited
    /\ \E s \in Slugs \cup {None} : slug' = s
    /\ taken' = FALSE
    /\ UNCHANGED <<server, page, email, edited, loading, checks, request, sentTo>>

TypeSlug ==
    /\ page = "register"
    /\ \E s \in Slugs \cup {None} : s # slug /\ slug' = s
    /\ edited' = TRUE /\ taken' = FALSE
    /\ UNCHANGED <<server, page, email, loading, checks, request, sentTo>>

\* Leaving the field of the name or of the slug looks the slug up.
checkSlug ==
    /\ page = "register" /\ slug # None
    /\ Cardinality(checks) < MaxChecks
    /\ checks' = checks \cup {[slug |-> slug, stage |-> "asked"]}
    /\ UNCHANGED <<server, page, email, slug, edited, taken, loading, request, sentTo>>

slug_available ==
    /\ \E c \in checks :
         /\ c.stage = "asked"
         /\ checks' = (checks \ {c}) \cup
              {[c EXCEPT !.stage = IF owner[c.slug] = None THEN "available" ELSE "unavailable"]}
    /\ UNCHANGED <<server, page, email, slug, edited, taken, loading, request, sentTo>>

\* The answer is taken for the slug the form has by now; a lookup that fails is passed over.
CheckArrives ==
    /\ \E c \in checks :
         /\ checks' = checks \ {c}
         /\ taken' = IF c.stage = "asked" \/ page # "register" THEN taken ELSE c.stage = "unavailable"
    /\ UNCHANGED <<server, page, email, slug, edited, loading, request, sentTo>>

-----------------------------------------------------------------------------
(* Asking for a workspace. *)

Submit(kind) ==
    /\ ~loading /\ request = None
    /\ loading' = TRUE
    /\ request' = [kind |-> kind, email |-> email, slug |-> IF kind = "signup" THEN slug ELSE None,
                   stage |-> "sent"]
    /\ UNCHANGED <<server, page, email, slug, edited, taken, checks, sentTo>>

submit == page = "register" /\ slug # None /\ ~taken /\ Submit("signup")

\* A variant of self_signup: an address that has an account is not looked for.
self_signupAgain(e, s) ==
    IF owner[s] # None THEN UNCHANGED owner
    ELSE owner' = [owner EXCEPT ![s] = e]

\* A slug that is taken is refused first; an address with an account makes no workspace.
self_signup(e, s) ==
    IF owner[s] # None \/ Registered(e) THEN UNCHANGED owner
    ELSE owner' = [owner EXCEPT ![s] = e]

Spent(e) == asked[e] = LinkLimit

\* A link within the hour's limit is mailed to an address that has an account by then.
Link(e) ==
    /\ asked' = [asked EXCEPT ![e] = IF Spent(e) THEN @ ELSE @ + 1]
    /\ mailed' = IF ~Spent(e) /\ (\E s \in Slugs : owner'[s] = e) THEN mailed \cup {e} ELSE mailed

\* The sign-up, with the link it mails; told says whether its answer arrives.
signup ==
    /\ request # None /\ request.kind = "signup" /\ request.stage = "sent"
    /\ \E told \in BOOLEAN :
         /\ self_signup(request.email, request.slug)
         /\ IF owner[request.slug] = None THEN Link(request.email) ELSE UNCHANGED <<mailed, asked>>
         /\ request' = [request EXCEPT !.stage =
                          IF ~told THEN "failed"
                          ELSE IF owner[request.slug] = None THEN "accepted" ELSE "taken"]
    /\ UNCHANGED <<page, email, slug, edited, taken, loading, checks, sentTo>>

\* A request that does not reach the server, or is one too many.
Lost ==
    /\ request # None /\ request.stage = "sent"
    /\ request' = [request EXCEPT !.stage = "failed"]
    /\ UNCHANGED <<server, page, email, slug, edited, taken, loading, checks, sentTo>>

Handled == request' = None /\ loading' = FALSE

\* The page goes on to the inbox with the address that was sent.
Accepted ==
    /\ request # None /\ request.kind = "signup" /\ request.stage = "accepted"
    /\ Handled
    /\ page' = "inbox" /\ sentTo' = request.email
    /\ slug' = None /\ edited' = FALSE /\ taken' = FALSE
    /\ UNCHANGED <<server, email, checks>>

\* What the server refused is said to be taken, whatever the form has by now.
Refused ==
    /\ request # None /\ request.stage \in {"taken", "failed"}
    /\ Handled
    /\ taken' = (taken \/ request.stage = "taken")
    /\ UNCHANGED <<server, page, email, slug, edited, checks, sentTo>>

-----------------------------------------------------------------------------
(* Asking for a new password. *)

ToForgot ==
    /\ page \in {"register", "inbox"} /\ ~loading
    /\ page' = "forgot" /\ sentTo' = None
    /\ slug' = None /\ edited' = FALSE /\ taken' = FALSE
    /\ UNCHANGED <<server, email, loading, checks, request>>

\* Back to the sign-in, and from there to the sign-up.
ToRegister ==
    /\ page \in {"forgot", "sent", "inbox"} /\ ~loading
    /\ page' = "register" /\ sentTo' = None
    /\ UNCHANGED <<server, email, slug, edited, taken, loading, checks, request>>

submitReset == page = "forgot" /\ Submit("reset")

\* Every address is answered alike, and refused beyond the hour's limit.
request_password_reset ==
    /\ request # None /\ request.kind = "reset" /\ request.stage = "sent"
    /\ \E told \in BOOLEAN :
         request' = [request EXCEPT !.stage =
                       IF told /\ ~Spent(request.email) THEN "accepted" ELSE "failed"]
    /\ UNCHANGED owner /\ Link(request.email)
    /\ UNCHANGED <<page, email, slug, edited, taken, loading, checks, sentTo>>

\* The page names the address the field has by now.
ResetAccepted ==
    /\ request # None /\ request.kind = "reset" /\ request.stage = "accepted"
    /\ Handled
    /\ page' = "sent" /\ sentTo' = email
    /\ UNCHANGED <<server, email, slug, edited, taken, checks>>

Resend ==
    /\ page = "sent"
    /\ page' = "forgot" /\ sentTo' = None
    /\ UNCHANGED <<server, email, slug, edited, taken, loading, checks, request>>

\* Someone else makes a workspace.
Elsewhere ==
    /\ \E s \in Slugs : owner[s] = None /\ owner' = [owner EXCEPT ![s] = "other"]
    /\ UNCHANGED <<mailed, asked, page, email, slug, edited, taken, loading, checks, request, sentTo>>

NewHour ==
    /\ \E e \in Emails : asked[e] > 0
    /\ asked' = [e \in Emails |-> 0]
    /\ UNCHANGED <<owner, mailed, page, email, slug, edited, taken, loading, checks, request, sentTo>>

Next == \/ TypeEmail \/ TypeName \/ TypeSlug \/ checkSlug \/ slug_available \/ CheckArrives
        \/ submit \/ signup \/ Lost \/ Accepted \/ Refused
        \/ ToForgot \/ ToRegister \/ submitReset \/ request_password_reset \/ ResetAccepted \/ Resend \/ Elsewhere \/ NewHour

Spec == Init /\ [][Next]_vars

-----------------------------------------------------------------------------
(* Properties. *)

\* Asking again, after an answer that was lost or for another slug, never makes a second workspace
\* of the same owner.
OneWorkspaceEach ==
    \A e \in Emails : Cardinality({s \in Slugs : owner[s] = e}) <= 1

\* Whoever the page sends to the inbox has an account, so that a link can be sent again, though
\* the field was edited meanwhile and the link itself may have been one too many.
InboxHasAccount == page = "inbox" => Registered(sentTo)

\* Whoever the page sends to the inbox has been mailed a link.
InboxIsMailed == page = "inbox" => sentTo \in mailed

\* Every request gives the button back.
Awaited == IF loading THEN {"save"} ELSE {}
\* The page of the new password names the address a link was asked for.
NamesTheAsked == [][page' = "sent" /\ page # "sent" => sentTo' = request.email]_vars

\* A slug is said to be taken only when a workspace has it.
TakenIsTaken == page = "register" /\ taken /\ slug # None => owner[slug] # None

=============================================================================
