----------------------- MODULE MCNotificationManager -----------------------
\* Model values for checking NotificationManager.  The configurations are a
\* filter that lets some urgencies pass, with what is dismissed kept, and one
\* that hides toasts and does not keep it; one that keeps no history treats
\* every notification as an untracked one is treated.  The notifications are
\* one of an urgency that is let pass and an untracked one, with actions, and
\* one of another urgency with and without.
EXTENDS NotificationManager

MCNotes == {[tracked |-> TRUE, allowed |-> TRUE, actions |-> TRUE],
            [tracked |-> TRUE, allowed |-> FALSE, actions |-> TRUE],
            [tracked |-> TRUE, allowed |-> FALSE, actions |-> FALSE],
            [tracked |-> FALSE, allowed |-> TRUE, actions |-> TRUE]}

MCConfigs == {[filter |-> "urgency", keepDismissed |-> TRUE],
              [filter |-> "noToast", keepDismissed |-> FALSE]}
=============================================================================
