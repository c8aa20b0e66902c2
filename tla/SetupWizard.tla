---------------------------- MODULE SetupWizard ----------------------------
(***************************************************************************)
(* What the first-run set-up promises, whatever the browser does: a step   *)
(* is only recorded once the steps before it have been, and a page is only *)
(* shown once the server has recorded the steps that page builds on.       *)
(* WebSession implements it.                                               *)
(***************************************************************************)
VARIABLES
    done,   \* the steps the server has recorded so far
    shown   \* the page the browser shows

Step == {"admin", "api_key", "telegram_api", "telegram_login", "listen_rules",
         "complete"}

\* The steps that come before a step, channel_selection being the page that
\* ends with the step complete.
Before == [admin |-> {},
           api_key |-> {"admin"},
           telegram_api |-> {"admin", "api_key"},
           telegram_login |-> {"admin", "api_key", "telegram_api"},
           listen_rules |-> {"admin", "api_key", "telegram_api", "telegram_login"},
           channel_selection |-> Step \ {"complete"},
           complete |-> Step \ {"complete"}]

\* What each page builds on.
Needs(page) ==
    CASE page \in {"blank", "setup-admin"} -> {}
      [] page = "login" -> {"admin"}
      [] page = "setup-api-key" -> Before.api_key
      [] page = "setup-telegram-api" -> Before.telegram_api
      [] page = "setup-telegram-login" -> Before.telegram_login
      [] page = "setup-listen-rules" -> Before.listen_rules
      [] page = "setup-channels" -> Before.channel_selection
      [] OTHER -> {"complete"}

\* A release ships Telegram credentials: their step may count from the start.
Init ==
    /\ done \in {{}, {"telegram_api"}}
    /\ shown = "blank"

Page == {"blank", "setup-admin", "login", "setup-api-key", "setup-telegram-api",
         "setup-telegram-login", "setup-listen-rules", "setup-channels", "home"}

Record ==
    \E step \in Step : Before[step] \subseteq done /\ done' = done \cup {step}

Show ==
    \E page \in Page : Needs(page) \subseteq done' /\ shown' = page

\* One answer of the server may record a step and move the browser on.
Next ==
    /\ Record \/ UNCHANGED done
    /\ Show \/ UNCHANGED shown

vars == <<done, shown>>
Spec == Init /\ [][Next]_vars
=============================================================================
