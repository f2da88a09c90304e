-------------------------- MODULE MCChatGeneration ---------------------------
(* ChatGeneration on a small instance: one provider that falls back and one *)
(* that does not; the fallback order repeats the default provider, as       *)
(* providerFallbackOrder lists it before removing duplicates.               *)
EXTENDS ChatGeneration

CONSTANTS anthropic, bedrock, w1, w2

MCProviders == {anthropic, bedrock}
MCFallbackOrder == <<anthropic, anthropic, bedrock>>
MCCrossProviderDisabled == {bedrock}
==============================================================================
