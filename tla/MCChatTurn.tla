------------------------------ MODULE MCChatTurn ------------------------------
\* The operator leaves the catalogue empty, as the seed has it, or lists a word
\* under agents that the roles of the askers may not reach.
EXTENDS ChatTurn, TLC

MCCatalogues == {{}, FallbackIntents,
                 {Intent("dono", {"faq", "special"}), Intent("faq", {"special"}),
                  Intent("motor_preditivo", {"faq"})}}
=============================================================================
