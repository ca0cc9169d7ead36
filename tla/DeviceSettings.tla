----------------------------- MODULE DeviceSettings -----------------------------
(***************************************************************************)
(* connection/DeviceSettings.ts: the settings of a device.  Times are in   *)
(* tenths of a second; schedules are known by how often they retry.        *)
(***************************************************************************)
EXTENDS Naturals

DefaultHandlerRetries == 3

DefaultSettings ==
    [connectTimeout |-> 100, keepAliveInterval |-> 100, responseTimeout |-> 50,
     stopTimeout |-> 10, recoveryAttempts |-> 5, recoveryRetryDelay |-> 5,
     recoveryTimeout |-> 10, handlerRetry |-> DefaultHandlerRetries, resultBuffer |-> 16,
     subscriptionBuffer |-> 16, dedupCapacity |-> 1000, recoveryLimit |-> 100]

\* What a configuration may say, and how: none of it has to be there.
IsConfig(config) == \A setting \in DOMAIN config : config[setting] \in Nat

\* resolveSettings: key by key, so that what is absent leaves the default.
ResolveSettings(config) ==
    [setting \in DOMAIN config \cup DOMAIN DefaultSettings |->
       IF setting \in DOMAIN config THEN config[setting]
       ELSE DefaultSettings[setting]]

=============================================================================
