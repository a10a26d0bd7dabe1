----------------------------- MODULE ScreenTime -----------------------------
(***************************************************************************)
(* The time a child spends with apps today, as the accessibility service   *)
(* of the Android app counts, saves and reports it                         *)
(* (child/MiniMasterAccessibilityService): the counts that the daily and   *)
(* the per-app limits are compared with.                                   *)
(*                                                                         *)
(* A round of the service is one tick of the clock.  The service can be    *)
(* killed or destroyed at any time and connects again later; the counts in *)
(* memory are gone then, what SharedPreferences hold is not.  After an     *)
(* onInterrupt the rounds just cease, as they may at any time here.        *)
(*                                                                         *)
(* Abstractions.  The day's start is the number of the day.  The pause     *)
(* between two reports is left open: a save may report or not.             *)
(***************************************************************************)
EXTENDS Naturals, FiniteSets

CONSTANTS
    Apps,         \* the apps that count: neither the system's nor the app itself
    SavePeriod,   \* ticks after which the counts are saved again (30 s in the code)
    MaxUse,       \* bound of the ticks counted in a day
    MaxDay,       \* bound of the days
    MaxDeaths     \* bound of the kills in a day

ASSUME ScreenTimeAssumption ==
    IsFiniteSet(Apps) /\ {SavePeriod, MaxUse, MaxDay, MaxDeaths} \subseteq Nat

VARIABLES
    today,
    connected,    \* the service runs and monitors
    dayUse,       \* currentDayUsageMillis
    appUse,       \* perAppUsageMillis
    sinceSave,    \* ticks since the last save, capped at SavePeriod + 1: never saved
    savedDay,     \* usage_stats: current_day_start, current_day_usage
    savedApps,    \* per_app_usage: day_start, app_usage_map
    sent,         \* calls of reportDailyUsage about today under way
    reported,     \* children/{k}/usageHistory/{today}
    \* History.
    used,         \* ticks spent with each app today, in sight of the service
    overnight,    \* the service was connected when the day began
    deaths        \* kills today

screenTimeVars == <<today, connected, dayUse, appUse, sinceSave, savedDay, savedApps, sent,
                    reported, used, overnight, deaths>>

NoUse == [a \in Apps |-> 0]
Ticks(use) == UNION {{a} \X (1..use[a]) : a \in Apps}
Total(use) == Cardinality(Ticks(use))

\* The counts of a day may carry those of the days before it.
Counts == 0..MaxUse * (MaxDay + 1)

ScreenTimeTypeOK ==
    /\ today \in 0..MaxDay
    /\ connected \in BOOLEAN
    /\ dayUse \in Counts /\ appUse \in [Apps -> Counts]
    /\ sinceSave \in 0..SavePeriod + 1
    /\ savedDay \in [start : 0..MaxDay, use : Counts]
    /\ savedApps \in [start : 0..MaxDay, use : [Apps -> Counts]]
    /\ sent \subseteq Counts /\ reported \in Counts
    /\ used \in [Apps -> 0..MaxUse]
    /\ overnight \in BOOLEAN /\ deaths \in 0..MaxDeaths

ScreenTimeInit ==
    /\ today = 0
    /\ connected = FALSE
    /\ dayUse = 0 /\ appUse = NoUse
    /\ sinceSave = SavePeriod + 1
    /\ savedDay = [start |-> 0, use |-> 0]
    /\ savedApps = [start |-> 0, use |-> NoUse]
    /\ sent = {} /\ reported = 0
    /\ used = NoUse
    /\ overnight = FALSE /\ deaths = 0

UnchangedHistory == UNCHANGED <<used, overnight>>

\* The service's memory is gone.
Stop ==
    /\ connected /\ connected' = FALSE
    /\ dayUse' = 0 /\ appUse' = NoUse
    /\ sinceSave' = SavePeriod + 1

\* Variant: what was saved is taken up, whatever its day.
OfTodayNot(saved, none) == saved

\* What was saved, if it was today.
OfToday(saved, none) ==
    IF saved.start = today THEN saved ELSE [start |-> today, use |-> none]

\* onServiceConnected: loadUsageData and loadPerAppUsageData.
OnServiceConnected ==
    /\ ~connected /\ connected' = TRUE
    /\ savedDay' = OfToday(savedDay, 0)
    /\ savedApps' = OfToday(savedApps, NoUse)
    /\ dayUse' = savedDay'.use
    /\ appUse' = savedApps'.use
    /\ sinceSave' = SavePeriod + 1
    /\ UnchangedHistory
    /\ UNCHANGED <<today, sent, reported, deaths>>

\* The day of the day's count is not saved with it, that of the per-app counts is.
Save(day, apps) ==
    /\ savedDay' = [savedDay EXCEPT !.use = day]
    /\ savedApps' = [start |-> today, use |-> apps]

\* reportUsageToBackend.
Report(day) == sent' = sent \cup {day}

\* A round of checkAppRunnable with a in front: updateUsageStats.
UpdateUsageStats(a) ==
    /\ connected /\ Total(used) < MaxUse
    /\ dayUse' = dayUse + 1
    /\ appUse' = [appUse EXCEPT ![a] = @ + 1]
    /\ used' = [used EXCEPT ![a] = @ + 1]
    /\ IF sinceSave >= SavePeriod
       THEN /\ Save(dayUse', appUse')
            /\ sinceSave' = 0
            /\ Report(dayUse') \/ UNCHANGED sent
       ELSE /\ sinceSave' = sinceSave + 1
            /\ UNCHANGED <<savedDay, savedApps, sent>>
    /\ UNCHANGED <<today, connected, reported, overnight, deaths>>

\* A round with the system's launcher, settings or the app itself in front, or
\* one that comes late: nothing is counted.
RoundWithoutUse ==
    /\ connected /\ sinceSave <= SavePeriod
    /\ sinceSave' = sinceSave + 1
    /\ UnchangedHistory
    /\ UNCHANGED <<today, connected, dayUse, appUse, savedDay, savedApps, sent, reported, deaths>>

\* onDestroy saves; its report is under way when the scope of the service is
\* cancelled, and may be sent all the same.
OnDestroy ==
    /\ Stop
    /\ Save(dayUse, appUse)
    /\ Report(dayUse) \/ UNCHANGED sent
    /\ UnchangedHistory
    /\ UNCHANGED <<today, reported, deaths>>

\* The process is killed, without onDestroy.
Kill ==
    /\ Stop
    /\ deaths < MaxDeaths /\ deaths' = deaths + 1
    /\ UnchangedHistory
    /\ UNCHANGED <<today, savedDay, savedApps, sent, reported>>

\* reportDailyUsage sets the document of the day; reports overtake each other
\* and get lost.
ReportDailyUsage ==
    /\ \E use \in sent : /\ sent' = sent \ {use}
                         /\ reported' \in {use, reported}
    /\ UnchangedHistory
    /\ UNCHANGED <<today, connected, dayUse, appUse, sinceSave, savedDay, savedApps, deaths>>

\* A connected service takes no notice of midnight.  Reports under way are
\* about the day that is over.
Midnight ==
    /\ today < MaxDay /\ today' = today + 1
    /\ used' = NoUse
    /\ overnight' = connected
    /\ deaths' = 0
    /\ sent' = {} /\ reported' = 0
    /\ UNCHANGED <<connected, dayUse, appUse, sinceSave, savedDay, savedApps>>

ScreenTimeNext ==
    \/ OnServiceConnected \/ RoundWithoutUse \/ OnDestroy \/ Kill
    \/ \E a \in Apps : UpdateUsageStats(a)
    \/ ReportDailyUsage \/ Midnight

ScreenTimeSpec == ScreenTimeInit /\ [][ScreenTimeNext]_screenTimeVars

-----------------------------------------------------------------------------
\* Today's counts, of a connected service, miss what the kills of today lost,
\* a save period each, and never count or report more than today's use: on days
\* that the service did not enter running.
CountsAreTodays ==
    connected /\ ~overnight =>
        /\ dayUse <= Total(used) /\ Total(used) <= dayUse + deaths * SavePeriod
        /\ Total(appUse) = dayUse /\ \A a \in Apps : appUse[a] <= used[a]
        /\ reported <= Total(used)

\* "Wait until midnight (or advance clock): limit counter resets"
\* (docs/CHILD_ENFORCEMENT_TEST_MATRIX.md, C-02).
LimitCounterResets == connected => dayUse <= Total(used)
=============================================================================
