---------------------------- MODULE MChatHistory ----------------------------
(***************************************************************************)
(* MChat with two history variables per address, for the two promises of   *)
(* the moderation that span several messages: how long a ban lasts and how *)
(* many lines fit in a moment.                                             *)
(***************************************************************************)
EXTENDS MChat, Subsequences

CONSTANT Burst \* 4: the lines one address can get through in a StrikeWindow

(* 10 s of ban and 20 s until a record is purged against 500 ms            *)
ASSUME ThresholdsAssumption ==
    StrikeWindow <= BanTime /\ StrikeWindow <= PurgeAfter /\ Burst \in Nat /\ Burst >= 4

VARIABLES
    banned_since, \* the last time the address was put on ban_list
    spoken        \* the times of its lines distributed less than StrikeWindow before its latest

hvars == <<vars, banned_since, spoken>>

Recent == {t \in 0..now : now - t < StrikeWindow}

HistoryInit ==
    /\ Init
    /\ banned_since = [a \in Addrs |-> None]
    /\ spoken = [a \in Addrs |-> << >>]

HistoryNext ==
    /\ Next
    /\ banned_since' = [a \in Addrs |->
                          IF ban_list'[a] # None THEN ban_list'[a] ELSE banned_since[a]]
    /\ spoken' = [a \in Addrs |->
                    IF broadcast' # None /\ broadcast'.from = a
                    THEN Append(Filter(spoken[a], Recent), now)
                    ELSE spoken[a]]

HistorySpec == HistoryInit /\ [][HistoryNext]_hvars

(* mchat/README.md: "Spam the chat and you get banned for 10 seconds": no  *)
(* line of an address is distributed sooner than BanTime after its last    *)
(* ban, by messages or by reconnections, whatever purges and reconnections *)
(* happen meanwhile.                                                       *)
BanServed ==
    broadcast # None /\ banned_since[broadcast.from] # None =>
        now - banned_since[broadcast.from] >= BanTime

(* The strikes bound the rate: no more than Burst lines of an address are  *)
(* distributed within one StrikeWindow.  (The worst moment is the end of a *)
(* ban: the line that lifts it, the next one, judged by the time of the    *)
(* last line before the ban, and two strikes.)                             *)
RateLimited == \A a \in Addrs : Len(spoken[a]) <= Burst

=============================================================================
