----------------------------- MODULE Providers ------------------------------
(* The provider modules under one roof, each under its own name.               *)
EXTENDS MeteredCall
OA == INSTANCE OpenAI
CP == INSTANCE ChatProviders
LL == INSTANCE LiteLLM
GO == INSTANCE Google
AN == INSTANCE Anthropic
MC == INSTANCE MediaCalls
=============================================================================
