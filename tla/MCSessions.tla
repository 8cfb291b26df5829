---------------------------- MODULE MCSessions ----------------------------
(* Instances of Sessions for TLC.                                           *)
EXTENDS Sessions, TLC

CONSTANTS b1, b2, g1, g2, m1, e1, e2

InBrowser(b, u, c) == [by |-> b, user |-> u, context |-> c]

(* A group with two tabs on one session, that may log out.                  *)
Tabs == [users |-> {g1}, logins |-> 0, time |-> 0,
         kinds |-> {"view", "save", "switch", "logout", "refused"},
         start |-> <<InBrowser(b1, g1, e1)>>]
(* The same for a member who corrects papers.                               *)
Papers == [users |-> {m1}, logins |-> 0, time |-> 0, kinds |-> {"view", "save", "switch", "refused"},
           start |-> <<InBrowser(b1, m1, NoContext)>>]
(* Time passes while pages are loaded and scripts poll.                     *)
Clock == [users |-> {g1}, logins |-> 0, time |-> 4, kinds |-> {"view", "poll", "logout"},
          start |-> <<InBrowser(b1, g1, e1)>>]
(* Logins of two groups in two browsers, one of which is logged in.         *)
Flows == [users |-> {g1, g2}, logins |-> 2, time |-> 1, kinds |-> {},
          start |-> <<InBrowser(b1, g1, e1)>>]
(* Logins with a security key, for two elections.                           *)
Keys == [users |-> {m1}, logins |-> 2, time |-> 1, kinds |-> {}, start |-> << >>]
(* Another user logs in where a page of the first is still open.            *)
Handover == [users |-> {g2}, logins |-> 1, time |-> 0, kinds |-> {"view", "save"},
             start |-> <<InBrowser(b1, g1, e1), InBrowser(b2, g2, e2)>>]
(* A group logs out, is sent to the RD, and logs in again.                  *)
Leave == [users |-> {g1}, logins |-> 2, time |-> 1, kinds |-> {"logout"},
          start |-> <<InBrowser(b1, g1, e1)>>]

AllScenes == {Tabs, Papers, Clock, Flows, Keys, Handover, Leave}
Perms == Permutations(Requests) \cup Permutations(Elections)
=============================================================================
