------------------------ MODULE SettingsFormsClaims ------------------------
(***************************************************************************)
(* What a test and the design of the AI providers say of a save without a   *)
(* key, stated over SettingsForms.  The code disagrees (README,             *)
(* "Findings").                                                             *)
(***************************************************************************)
EXTENDS SettingsForms

\* "ollama api key = %q, want empty" (internal/config/config_test.go:283) and
\* "empty key on save preserves the stored secret. Ollama does not require an
\* API key" (docs/superpowers/specs/2026-06-13-ai-media-metadata-v2-design.md:24):
\* a provider stored without a key, and saved without one, has none after.
KeylessStaysKeyless ==
    [][\A k \in DOMAIN jobs \cap DOMAIN jobs', p \in ToSet(stored.providers) :
          (jobs[k].kind = "save" /\ jobs[k].at = "ask" /\ jobs'[k].at = "back" /\ p.key = "blank")
          => \A row \in ToSet(jobs[k].payload.rows), q \in ToSet(stored'.providers) :
                (row.id = p.id /\ q.id = p.id /\ row.key = "blank") => q.key = "blank"]_vars
=============================================================================
