--------------------------- MODULE ConsentWindow ---------------------------
(***************************************************************************)
(* The window in which a user gives an agent consent: the pages a service    *)
(* provider serves into it (GET /consent, POST /api/sp-login, GET            *)
(* /api/consent/scopes and the scripts of both pages in                      *)
(* examples/e2e-consent-demo/sp-shared/app.ts) and the message it posts to   *)
(* the page that opened it.                                                 *)
(*                                                                          *)
(* There is one window, by name: opening it again replaces its page, while   *)
(* what it asked of the provider goes on there unheard.  What the provider   *)
(* does to issue a grant is Consent's.                                      *)
(***************************************************************************)
EXTENDS Naturals, Sequences

CONSTANT MaxMail   \* bound: messages posted and not read yet

ASSUME MailAssumption == MaxMail \in Nat

\* SPS: each provider has one tool that books, another scope beside that tool's
\* (terms to accept, changes to a booking), and a search that needs none.
Sp == {"airline", "hotel"}

\* A grant lets its holder book unless the user left that scope out.
Grant == [sp : Sp, books : BOOLEAN]

Accepted(grant) == [kind |-> "accepted", grant |-> {grant}]
DeclinedNote == [kind |-> "declined", grant |-> {}]

VARIABLES
    window,    \* the provider whose page is shown, and the page
    browser,   \* providers with a session of the user's: browserSessions
    mail       \* messages posted to the opener, not read yet, in order

windowVars == <<window, browser, mail>>

Page == {"login", "loading", "failed", "ready", "signing", "leaving"}

Closed == [sp |-> "none", page |-> "closed", books |-> FALSE]

WindowTypeOK ==
    /\ window \in {Closed} \union [sp : Sp, page : Page, books : BOOLEAN]
    /\ browser \subseteq Sp
    /\ mail \in Seq({Accepted(g) : g \in Grant} \union {DeclinedNote})
    /\ Len(mail) <= MaxMail

WindowInit ==
    /\ window = Closed
    /\ browser = {}
    /\ mail = <<>>

Shows(page) == window.page = page

Goto(page) == window' = [window EXCEPT !.page = page]

\* postMessage
Post(message) ==
    /\ Len(mail) < MaxMail
    /\ mail' = Append(mail, message)

\* GET /consent: the login page, unless there is a session.
OpenAt(sp) ==
    /\ window' = [sp |-> sp, page |-> IF sp \in browser THEN "loading" ELSE "login", books |-> FALSE]
    /\ UNCHANGED <<browser, mail>>

\* POST /api/sp-login and the redirect to GET /consent.
SignInAtSp ==
    /\ Shows("login")
    /\ browser' = browser \union {window.sp}
    /\ Goto("loading")
    /\ UNCHANGED mail

\* GET /api/consent/scopes
ScopesShown ==
    /\ Shows("loading")
    /\ Goto("ready")
    /\ UNCHANGED <<browser, mail>>

\* The scopes cannot be resolved: Allow is disabled, Close declines.
ScopesMissing ==
    /\ Shows("loading")
    /\ Goto("failed")
    /\ UNCHANGED <<browser, mail>>

\* Allow, with some of the scopes: POST /api/consent/accept.
Allow ==
    /\ Shows("ready")
    /\ \E books \in BOOLEAN : window' = [window EXCEPT !.page = "signing", !.books = books]
    /\ UNCHANGED <<browser, mail>>

\* The grant is signed and posted; the window closes after a moment.
GrantPosted ==
    /\ window.page \in {"signing", "leaving"}
    /\ Post(Accepted([sp |-> window.sp, books |-> window.books]))
    /\ window' = Closed
    /\ UNCHANGED browser

\* The provider refuses or does not answer: the error, and a way to close.
GrantRefused ==
    /\ window.page \in {"signing", "leaving"}
    /\ Goto("failed")
    /\ UNCHANGED <<browser, mail>>

\* "Not now" or "Close".  The button is there while a grant is being signed,
\* which then is posted after all if it comes before the window closes.
Decline ==
    /\ window.page \in {"ready", "failed", "signing"}
    /\ Post(DeclinedNote)
    /\ IF Shows("signing") THEN Goto("leaving") ELSE window' = Closed
    /\ UNCHANGED browser

\* The window closes, or the user closes it: no message is posted.
CloseWindow ==
    /\ window # Closed
    /\ window' = Closed
    /\ UNCHANGED <<browser, mail>>

\* The steps of the window itself, of the provider and of the user in it.
WindowStep ==
    SignInAtSp \/ ScopesShown \/ ScopesMissing \/ Allow \/ GrantPosted \/ GrantRefused
        \/ Decline \/ CloseWindow

=============================================================================
