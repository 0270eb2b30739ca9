SPECIFICATION MCSpec
CONSTANTS
    r1 = r1
    r2 = r2
    Runs = {r1}
    Clients = {1, 2, 3}
    None = None
    Policies <- MCPolicies
    Durations = {0, 1, 2}
    Outcomes = {"ok", "refused", "broken", "limited", "overloaded", "down", "unreachable", "aborted"}
    Afters = {0, 3}
    MaxCalls = 1
    Drops = 0
    Providers = {"chat", "anthropic", "shaped", "litellm", "whole", "mock", "base"}
    Indices = {0, 1}
    MaxRecords = 6
    Apis = {"chat", "responses", "anthropic", "litellm"}
    MaxParts = 3
    MaxMessages = 3
    Parts = {"call", "cache", "stream", "answer", "tokens", "options", "tools", "messages", "config", "retry", "hint", "url", "headers",
             "exception", "mock", "context"}
INVARIANTS CallTimes NothingLeftOpen WireFaithful
PROPERTIES CallsEndHere
CHECK_DEADLOCK FALSE
