------------------------------ MODULE MCProxy -------------------------------
(* Configurations, requests and replies for the runs of Proxy. *)
EXTENDS Proxy

Conf1(mode, strict, env, live, allow, up, free, ign) ==
    [mode |-> mode, strict |-> strict, hmacEnv |-> env, live |-> live,
     allowLive |-> allow, upstream |-> up, free |-> free, ignores |-> ign]

\* Recording by a developer with a random key, in free mode with an ignore list,
\* and by ci, with LLMREPLAY_HMAC_KEY and without.
Recorders == {
    Conf1("record", FALSE, FALSE, FALSE, FALSE, TRUE,  FALSE, FALSE),
    Conf1("record", FALSE, TRUE,  FALSE, FALSE, FALSE, TRUE,  TRUE),
    Conf1("record", TRUE,  TRUE,  FALSE, FALSE, TRUE,  FALSE, FALSE),
    Conf1("record", TRUE,  FALSE, FALSE, FALSE, TRUE,  FALSE, FALSE)}

\* Replaying in ci, with an ignore list, and live with and without --allow-live
\* and an upstream.
Players == {
    Conf1("replay", TRUE,  TRUE,  FALSE, FALSE, TRUE,  FALSE, FALSE),
    Conf1("replay", FALSE, TRUE,  FALSE, FALSE, FALSE, FALSE, TRUE),
    Conf1("replay", TRUE,  TRUE,  TRUE,  FALSE, TRUE,  FALSE, FALSE),
    Conf1("replay", TRUE,  TRUE,  TRUE,  TRUE,  FALSE, FALSE, FALSE),
    Conf1("replay", FALSE, TRUE,  TRUE,  FALSE, TRUE,  FALSE, FALSE)}

AllConfigs == Recorders \cup Players

Req(t, n, s) == [text |-> t, noise |-> n, secret |-> s]

\* Two requests that differ in noise only, two that differ in secret only.
SomeRequests == {Req("ask", "x", "s1"), Req("ask", "y", "s1"), Req("ask", "x", "s2"),
                 Req(Models, "x", NoSecret)}

Reply(ok, v, o, secret) == [ok |-> ok, value |-> v, object |-> o, secret |-> secret]

\* A good reply, a JSON list with a secret the scrubbers find, a reply with one
\* they leave, an error.
SomeReplies == {Reply(TRUE, "a", TRUE, "none"), Reply(TRUE, "b", FALSE, "found"),
                Reply(TRUE, "c", TRUE, "left"), Reply(FALSE, "e", TRUE, "none")}

\* What a ci recorder leaves that started, recorded one exchange and stopped.
\* The bounds count from there.
InitRecorded ==
    LET c == Conf1("record", TRUE, TRUE, FALSE, FALSE, TRUE, FALSE, FALSE)
        r == Req("ask", "x", "s1")
        tx == [key |-> MatchKey(r, c, 0), req |-> r, conf |-> c, hmac |-> 0,
               body |-> Stored(Reply(TRUE, "a", TRUE, "none"))]
    IN  /\ cassette = <<tx>>
        /\ recorded = {tx}
        /\ config = [p \in Proxies |-> Down]
        /\ hmac = [p \in Proxies |-> 0]
        /\ stamping = {}
        /\ index = [p \in Proxies |-> NotBuilt]
        /\ slot = [s \in Slots |-> Free]
        /\ source = [p \in Proxies |-> << >>]
        /\ severed = FALSE
        /\ starts = 0
        /\ sends = 0

SettingsSpec == (Init \/ InitRecorded) /\ [][Next]_vars

\* Names do not matter: the next process and the next slot are the first ones.
FirstNames ==
    /\ \A p \in Proxies : config[p] = Down /\ config'[p] # Down =>
          p = CHOOSE q \in Proxies : config[q] = Down
    /\ \A s \in Slots : slot[s] = Free /\ slot'[s] # Free =>
          s = CHOOSE t \in Slots : slot[t] = Free

=============================================================================
